---- MODULE Spec2Model ----
(***************************************************************************)
(* TauZip archive engine (src-tauri/src/compression.rs): the facade that   *)
(* dispatches by archive kind, the zip / tar / single-stream drivers, the  *)
(* common-base resolver, the progress-counting stream wrappers and the     *)
(* filename recovery used when decompressing single-stream archives.      *)
(*                                                                         *)
(* A path is the sequence of its components, as std::path::Path yields     *)
(* them: "/" is the root component, "." a leading current-dir component,   *)
(* ".." a parent-dir component, anything else a normal name.  File names   *)
(* are strings, so that suffixes and stems are computed on characters.     *)
(***************************************************************************)
EXTENDS Integers, Sequences, FiniteSets, TLC

VARIABLES
    nameArg,        \* the archive path given to fallback_filename_from_compressed
    nameRet,        \* its result, NoName before the call
    baseArg,        \* the inputs given to find_common_base_dir
    baseRet,        \* the base directory derived from them, NoPath before
    callee,         \* the helper function called on its own, "none" if none
    arg,            \* the argument it was given
    ret,            \* the values returned so far by the call and its follow-up
    locals,         \* the locals of a helper that loops: counter and candidate
                    \* path, or the paths still to visit and the running total
    parked,         \* the call of the other task while it does not run
    running,        \* the task that runs: 1 or 2
    op,             \* "compress" or "decompress": the facade operation running
    pc,             \* where the operation stands
    kind,           \* CompressionType of a compress call
    files,          \* the InputSet of a compress call
    output_path,    \* compress: the archive to write; decompress: the archive read
    fsSize,         \* byte length of every regular file of the input tree
    arc,            \* the archive file at output_path
    events,         \* the percent values handed to progress_callback, in order
    opened,         \* input paths opened for reading so far
    base_dir,       \* compress_zip_with_progress: base_dir
    total_size,     \* the drivers' total_size / ProgressWriter.total_size
    processed_size, \* the drivers' processed_size
    index,          \* loop index of the driver (0-based, next to process)
    bytes_written,  \* ProgressWriter.bytes_written
    pending,        \* encoded bytes the encoder has still to write
    output_dir,     \* decompress: the directory to extract into
    bytes_read,     \* ProgressReader.bytes_read
    unread,         \* bytes of the archive file not yet read
    outFiles,       \* files decompress created: resolved path -> content
    outDirs,        \* directories decompress created (resolved paths)
    touched,        \* every path decompress created, wrote or chmod-ed, as joined
    err             \* the error a failed operation returned

\* the helper function called on its own
helperVars == <<callee, arg, ret, locals>>

\* two calls of the engine that run as concurrent tasks
taskVars == <<parked, running>>

\* what no step of an engine call touches
pureVars == <<nameArg, nameRet, baseArg, baseRet, callee, arg, ret, locals,
              parked, running>>

callVars == <<op, kind, files, output_path, fsSize>>

vars == <<nameArg, nameRet, baseArg, baseRet, callee, arg, ret, locals,
          parked, running, op, pc, kind, files, output_path,
          fsSize, arc, events, opened, base_dir, total_size, processed_size,
          index, bytes_written, pending, output_dir, bytes_read, unread,
          outFiles, outDirs, touched, err>>

\* the state of a decompress call
decVars == <<output_dir, bytes_read, unread, outFiles, outDirs, touched>>

\* the locals of the compress drivers
encVars == <<base_dir, total_size, processed_size, index, bytes_written, pending>>

(***************************************************************************)
(* Bounds of the model.                                                    *)
(***************************************************************************)
MaxBaseInputs == 2
MaxInputs == 2
MaxFileSize == 2
MaxEncoded == 2
MaxForeignEntries == 2
MaxCounter == 5
MaxTaken == 3
MaxSymlinks == 2

(***************************************************************************)
(* Strings.                                                                *)
(***************************************************************************)
\* str::ends_with
EndsWith(s, suf) ==
    /\ Len(s) >= Len(suf)
    /\ SubSeq(s, Len(s) - Len(suf) + 1, Len(s)) = suf

\* str::contains('.')
ContainsDot(s) == \E i \in 1..Len(s) : SubSeq(s, i, i) = "."

\* the index of the last '.' of s, 0 when there is none
LastDot(s) ==
    IF ContainsDot(s)
    THEN CHOOSE i \in 1..Len(s) :
            /\ SubSeq(s, i, i) = "."
            /\ \A j \in (i + 1)..Len(s) : SubSeq(s, j, j) # "."
    ELSE 0

\* &s[..s.len() - n]
DropLast(s, n) == SubSeq(s, 1, Len(s) - n)

(***************************************************************************)
(* std::path::Path, on component sequences.                                *)
(***************************************************************************)
NoPath == <<"?none">>
NoName == "?none"
Root == "/"
CurDir == "."
ParentDir == ".."

IsNormal(c) == c \notin {Root, CurDir, ParentDir}

\* Path::parent: None for the empty path and for a root
HasParent(p) == Len(p) > 0 /\ p[Len(p)] # Root
Parent(p) == IF HasParent(p) THEN SubSeq(p, 1, Len(p) - 1) ELSE NoPath

\* Path::file_name: the last component when it is a normal one
HasFileName(p) == Len(p) > 0 /\ IsNormal(p[Len(p)])
\* file_name().unwrap_or_default().to_string_lossy()
FileNameOrEmpty(p) == IF HasFileName(p) THEN p[Len(p)] ELSE ""

\* Path::file_stem().unwrap_or_default(): the name before its last '.', the
\* whole name when it has no '.' or only a leading one
FileStemOrEmpty(p) ==
    IF ~HasFileName(p) THEN ""
    ELSE LET f == p[Len(p)]
             d == LastDot(f)
         IN  IF d <= 1 THEN f ELSE SubSeq(f, 1, d - 1)

\* Path::extension() is Some: the name has a '.' that is not its first character
HasExtension(p) == HasFileName(p) /\ LastDot(p[Len(p)]) > 1

\* Path::join(name) for a single name; an empty name adds nothing
JoinName(dir, name) == IF name = "" THEN dir ELSE Append(dir, name)

\* format!("{}", n) of a non-negative integer
Digits == <<"0", "1", "2", "3", "4", "5", "6", "7", "8", "9">>
RECURSIVE Decimal(_)
Decimal(n) ==
    IF n < 10 THEN Digits[n + 1]
    ELSE Decimal(n \div 10) \o Digits[(n % 10) + 1]

\* Path::starts_with, component-wise
IsPrefix(b, p) == Len(b) <= Len(p) /\ SubSeq(p, 1, Len(b)) = b

\* Path::strip_prefix(base).is_ok() and its value
StripOk(p, b) == IsPrefix(b, p)
Strip(p, b) == SubSeq(p, Len(b) + 1, Len(p))

IsAbsolute(p) == Len(p) > 0 /\ p[1] = Root

\* Path::join: an absolute right side replaces the left
Join(a, b) == IF IsAbsolute(b) THEN b ELSE a \o b

(***************************************************************************)
(* Filename recovery (compression.rs 717-749).                             *)
(***************************************************************************)
fallback_filename_from_compressed_noTxt(file_path) ==
    LET filename == FileNameOrEmpty(file_path)
        base_name ==
            IF EndsWith(filename, ".gz") THEN DropLast(filename, 3)
            ELSE IF EndsWith(filename, ".gzip") THEN DropLast(filename, 5)
            ELSE IF EndsWith(filename, ".br") THEN DropLast(filename, 3)
            ELSE IF EndsWith(filename, ".bz2") THEN DropLast(filename, 4)
            ELSE IF EndsWith(filename, ".bzip2") THEN DropLast(filename, 6)
            ELSE filename
        stripped == base_name # filename
    IN  IF stripped /\ base_name # ""
        THEN base_name
        ELSE FileStemOrEmpty(file_path)

fallback_filename_from_compressed(file_path) ==
    LET filename == FileNameOrEmpty(file_path)
        stripped ==
            \/ EndsWith(filename, ".gz")
            \/ EndsWith(filename, ".gzip")
            \/ EndsWith(filename, ".br")
            \/ EndsWith(filename, ".bz2")
            \/ EndsWith(filename, ".bzip2")
        base_name ==
            IF EndsWith(filename, ".gz") THEN DropLast(filename, 3)
            ELSE IF EndsWith(filename, ".gzip") THEN DropLast(filename, 5)
            ELSE IF EndsWith(filename, ".br") THEN DropLast(filename, 3)
            ELSE IF EndsWith(filename, ".bz2") THEN DropLast(filename, 4)
            ELSE IF EndsWith(filename, ".bzip2") THEN DropLast(filename, 6)
            ELSE filename
    IN  IF stripped /\ base_name # ""
        THEN IF ContainsDot(base_name)
             THEN base_name
             ELSE base_name \o ".txt"
        ELSE FileStemOrEmpty(file_path)

(***************************************************************************)
(* Common-base resolver (compression.rs 176-224).                          *)
(***************************************************************************)
\* the number of leading components path1 and path2 share
RECURSIVE CommonLen(_, _)
CommonLen(path1, path2) ==
    IF path1 = <<>> \/ path2 = <<>> \/ Head(path1) # Head(path2)
    THEN 0
    ELSE 1 + CommonLen(Tail(path1), Tail(path2))

\* find_common_path: None (NoPath) when no component is shared
find_common_path(path1, path2) ==
    LET n == CommonLen(path1, path2)
    IN  IF n = 0 THEN NoPath ELSE SubSeq(path1, 1, n)

\* the loop of find_common_base_dir over files[i..]
RECURSIVE FoldCommon(_, _, _)
FoldCommon(common_base, paths, i) ==
    IF i > Len(paths) THEN common_base
    ELSE IF ~HasParent(paths[i]) THEN FoldCommon(common_base, paths, i + 1)
    ELSE LET new_common == find_common_path(common_base, Parent(paths[i]))
         IN  IF new_common = NoPath
             THEN <<CurDir>>
             ELSE FoldCommon(new_common, paths, i + 1)

\* a slip: the running candidate is not narrowed by the later inputs
find_common_base_dir_firstOnly(paths) ==
    IF paths = <<>> THEN NoPath
    ELSE IF ~HasParent(paths[1]) THEN NoPath
    ELSE Parent(paths[1])

find_common_base_dir(paths) ==
    IF paths = <<>> THEN NoPath
    ELSE IF ~HasParent(paths[1]) THEN NoPath
    ELSE FoldCommon(Parent(paths[1]), paths, 2)

\* base_dir of compress_zip_with_progress (compression.rs 116-123)
ZipBaseDir(paths) ==
    IF Len(paths) = 1
    THEN IF HasParent(paths[1]) THEN Parent(paths[1]) ELSE <<CurDir>>
    ELSE LET b == find_common_base_dir(paths)
         IN  IF b = NoPath THEN <<CurDir>> ELSE b

\* find_common_base_dir(paths).unwrap_or_else(|| PathBuf::from("."))
CommonBase(paths) ==
    LET b == find_common_base_dir(paths)
    IN  IF b = NoPath THEN <<CurDir>> ELSE b


(***************************************************************************)
(* The input tree.  The process runs in /w/c; relative inputs resolve      *)
(* against it.  Archives are written to the existing directory /o.         *)
(***************************************************************************)
Cwd == <<Root, "w", "c">>

TreeFiles ==
    { <<Root, "w", "c", "a", "x.txt">>,
      <<Root, "w", "c", "b", "y.txt">> }

\* every directory with its entries, in the order read_dir yields them
DirList ==
    (<<Root>> :> <<"o", "w">>)
      @@ (<<Root, "o">> :> <<>>)
      @@ (<<Root, "w">> :> <<"c">>)
      @@ (<<Root, "w", "c">> :> <<"a", "b">>)
      @@ (<<Root, "w", "c", "a">> :> <<"e", "x.txt">>)
      @@ (<<Root, "w", "c", "a", "e">> :> <<>>)
      @@ (<<Root, "w", "c", "b">> :> <<"y.txt">>)

TreeDirs == DOMAIN DirList

\* the path the kernel resolves: "." dropped, ".." stepping up
RECURSIVE Norm(_, _)
Norm(acc, rest) ==
    IF rest = <<>> THEN acc
    ELSE LET c == Head(rest)
         IN  IF c = Root THEN Norm(<<Root>>, Tail(rest))
             ELSE IF c = CurDir THEN Norm(acc, Tail(rest))
             ELSE IF c = ParentDir
                  THEN Norm(IF Len(acc) > 1 THEN SubSeq(acc, 1, Len(acc) - 1) ELSE acc,
                            Tail(rest))
             ELSE Norm(Append(acc, c), Tail(rest))

Resolve(p) == Norm(Cwd, p)

\* Path::is_file / Path::is_dir
IsFile(p) == Resolve(p) \in TreeFiles
IsDir(p) == Resolve(p) \in TreeDirs

\* std::fs::metadata(path)?.len() of a regular file
FileLen(p) == fsSize[Resolve(p)]

\* the byte every position of a file holds: files differ in content
ByteOf(abs) ==
    IF abs = <<Root, "w", "c", "a", "x.txt">> THEN 1 ELSE 2

\* the content File::open(p) reads
FileData(p) == [i \in 1..FileLen(p) |-> ByteOf(Resolve(p))]

(***************************************************************************)
(* CompressionType (compression.rs 10-53).                                 *)
(***************************************************************************)
Kinds == {"Zip", "TarGz", "TarBr", "Gz", "Br", "Gzip", "Bzip2"}

\* a suffix table that names Gzip archives ".gz", as Gz
extension_gzForGzip(k) ==
    CASE k = "Zip" -> ".zip"
      [] k = "TarGz" -> ".tar.gz"
      [] k = "TarBr" -> ".tar.br"
      [] k \in {"Gz", "Gzip"} -> ".gz"
      [] k = "Br" -> ".br"
      [] k = "Bzip2" -> ".bz2"

extension(k) ==
    CASE k = "Zip" -> ".zip"
      [] k = "TarGz" -> ".tar.gz"
      [] k = "TarBr" -> ".tar.br"
      [] k = "Gz" -> ".gz"
      [] k = "Br" -> ".br"
      [] k = "Gzip" -> ".gzip"
      [] k = "Bzip2" -> ".bz2"

\* str::to_lowercase on the letters file names are made of
UpperLetters == <<"A", "B", "C", "D", "E", "F", "G", "H", "I", "J", "K", "L", "M",
                  "N", "O", "P", "Q", "R", "S", "T", "U", "V", "W", "X", "Y", "Z">>
LowerLetters == <<"a", "b", "c", "d", "e", "f", "g", "h", "i", "j", "k", "l", "m",
                  "n", "o", "p", "q", "r", "s", "t", "u", "v", "w", "x", "y", "z">>

LowerOf(c) ==
    IF \E i \in 1..Len(UpperLetters) : UpperLetters[i] = c
    THEN LowerLetters[CHOOSE i \in 1..Len(UpperLetters) : UpperLetters[i] = c]
    ELSE c

RECURSIVE to_lowercase(_)
to_lowercase(s) ==
    IF s = "" THEN ""
    ELSE LowerOf(SubSeq(s, 1, 1)) \o to_lowercase(SubSeq(s, 2, Len(s)))

\* Option<CompressionType>::None
NoKind == "None"

from_extension(ext) ==
    LET e == to_lowercase(ext)
    IN  CASE e = ".zip" -> "Zip"
          [] e \in {".tar.gz", ".tgz"} -> "TarGz"
          [] e = ".tar.br" -> "TarBr"
          [] e = ".gz" -> "Gz"
          [] e = ".br" -> "Br"
          [] e = ".gzip" -> "Gzip"
          [] e \in {".bz2", ".bzip2"} -> "Bzip2"
          [] OTHER -> NoKind

supports_multiple_files_all(k) == TRUE

supports_multiple_files(k) == k \in {"Zip", "TarGz", "TarBr"}

\* the container or stream format a driver writes
FormatOf(k) ==
    CASE k = "Zip" -> "zip"
      [] k = "TarGz" -> "tar.gz"
      [] k = "TarBr" -> "tar.br"
      [] k \in {"Gz", "Gzip"} -> "gz"
      [] k = "Br" -> "br"
      [] k = "Bzip2" -> "bz2"

(***************************************************************************)
(* Archive files and progress values.                                      *)
(***************************************************************************)
\* no file at output_path
NoArchive ==
    [fmt |-> "none", entries |-> <<>>, hdrName |-> NoName, size |-> 0,
     complete |-> FALSE]

\* File::create(output_path): an empty file the encoder has yet to fill
CreatedArchive(fmt) ==
    [fmt |-> fmt, entries |-> <<>>, hdrName |-> NoName, size |-> 0,
     complete |-> FALSE]

Entry(name, data, isDir) == [name |-> name, data |-> data, dir |-> isDir]

\* the f64 (n / d) * 100.0, kept as the fraction
Pct(n, d) == [n |-> n, d |-> d]
Hundred == Pct(1, 1)
PctLeq(a, b) == a.n * b.d <= b.n * a.d
PctIs100(a) == a.n = a.d
\* a wrapper that reports the ratio as it is
PctMin100_unclamped(a) == a

\* progress.min(100.0)
PctMin100(a) == IF a.n > a.d THEN Hundred ELSE a

(***************************************************************************)
(* Path Size Resolver (compression.rs 155-174).                            *)
(***************************************************************************)
\* a resolver that counts the files directly in a directory and does not
\* descend
RECURSIVE FlatChildren(_, _, _)
FlatChildren(path, names, i) ==
    IF i > Len(names) THEN 0
    ELSE (IF IsFile(Append(path, names[i])) THEN FileLen(Append(path, names[i])) ELSE 0)
            + FlatChildren(path, names, i + 1)

calculate_path_size_flat(path) ==
    IF IsFile(path) THEN FileLen(path)
    ELSE IF IsDir(path) THEN FlatChildren(path, DirList[Resolve(path)], 1)
    ELSE 0

RECURSIVE calculate_path_size(_)
RECURSIVE SizeOfChildren(_, _, _)
calculate_path_size(path) ==
    IF IsFile(path) THEN FileLen(path)
    ELSE IF IsDir(path) THEN SizeOfChildren(path, DirList[Resolve(path)], 1)
    ELSE 0

SizeOfChildren(path, names, i) ==
    IF i > Len(names) THEN 0
    ELSE calculate_path_size(Append(path, names[i]))
            + SizeOfChildren(path, names, i + 1)

RECURSIVE calculate_total_size(_)
calculate_total_size(fs) ==
    IF fs = <<>> THEN 0
    ELSE calculate_path_size(Head(fs)) + calculate_total_size(Tail(fs))

(***************************************************************************)
(* Zip driver (compression.rs 104-153, 226-279).                           *)
(***************************************************************************)
\* the regular files add_to_zip_sync_with_progress reaches from file_path, in
\* the order it adds them (directories are descended, anything else skipped)
RECURSIVE ZipWalk(_)
RECURSIVE ZipWalkChildren(_, _, _)
ZipWalk(file_path) ==
    IF IsFile(file_path) THEN <<file_path>>
    ELSE IF IsDir(file_path)
         THEN ZipWalkChildren(file_path, DirList[Resolve(file_path)], 1)
    ELSE <<>>

ZipWalkChildren(file_path, names, i) ==
    IF i > Len(names) THEN <<>>
    ELSE ZipWalk(Append(file_path, names[i]))
            \o ZipWalkChildren(file_path, names, i + 1)

\* relative_path: strip_prefix(base_dir), else the bare file name
ZipEntryName(file_path, base) ==
    IF StripOk(file_path, base)
    THEN Strip(file_path, base)
    ELSE <<FileNameOrEmpty(file_path)>>

\* the percent reported after one file was copied
ZipAfterFile(processed, total) ==
    IF total > 0 THEN Pct(processed, total) ELSE Hundred

\* the percent reported before input number idx (0-based) is processed
BeforeInput(processed, total, idx, count) ==
    IF total > 0 THEN Pct(processed, total) ELSE Pct(idx, count)

\* add_to_zip_sync_with_progress over the files it visits, threading the
\* container's entries, the events and processed_size
RECURSIVE add_to_zip(_, _, _, _)
add_to_zip(visits, base, total, st) ==
    IF visits = <<>> THEN st
    ELSE LET file_path == Head(visits)
             processed == st.processed + FileLen(file_path)
         IN  add_to_zip(Tail(visits), base, total,
                [entries |-> Append(st.entries,
                                Entry(ZipEntryName(file_path, base),
                                      FileData(file_path), FALSE)),
                 events |-> Append(st.events, ZipAfterFile(processed, total)),
                 processed |-> processed])

(***************************************************************************)
(* Tar drivers (compression.rs 296-379).                                   *)
(***************************************************************************)
\* tar::Builder::append_dir_all(name, path): the directory and all below it
RECURSIVE TarDirAll(_, _)
RECURSIVE TarDirChildren(_, _, _, _)
TarDirAll(name, path) ==
    IF IsFile(path) THEN <<Entry(name, FileData(path), FALSE)>>
    ELSE <<Entry(name, <<>>, TRUE)>>
            \o TarDirChildren(name, path, DirList[Resolve(path)], 1)

TarDirChildren(name, path, names, i) ==
    IF i > Len(names) THEN <<>>
    ELSE TarDirAll(Append(name, names[i]), Append(path, names[i]))
            \o TarDirChildren(name, path, names, i + 1)

\* add_to_tar_with_progress panics: file_name().unwrap() on a directory whose
\* path has no final name
TarPanics(file_path) == ~IsFile(file_path) /\ IsDir(file_path) /\ ~HasFileName(file_path)

\* the entries add_to_tar_with_progress appends for one input
TarEntries(file_path) ==
    IF IsFile(file_path)
    THEN <<Entry(<<FileNameOrEmpty(file_path)>>, FileData(file_path), FALSE)>>
    ELSE IF IsDir(file_path)
         THEN TarDirAll(<<FileNameOrEmpty(file_path)>>, file_path)
    ELSE <<>>


(***************************************************************************)
(* compress: the facade and its drivers, one action per step.              *)
(***************************************************************************)
SetOf(q) == {q[i] : i \in 1..Len(q)}

\* compress_files_with_progress (compression.rs 63-102)
compress_files_with_progress ==
    /\ op = "compress"
    /\ pc = "idle"
    /\ IF ~supports_multiple_files(kind) /\ Len(files) > 1
       THEN /\ pc' = "failed"
            /\ err' = "UnsupportedMultiInput"
       ELSE IF ~supports_multiple_files(kind) /\ Len(files) = 0
       THEN /\ pc' = "panicked"          \* files[0] on an empty slice
            /\ err' = "index out of bounds"
       ELSE /\ pc' = CASE kind = "Zip" -> "zip_create"
                       [] kind \in {"TarGz", "TarBr"} -> "tar_create"
                       [] OTHER -> "single_open"
            /\ err' = err
    /\ UNCHANGED <<pureVars, callVars, arc, events, opened, encVars, decVars>>

\* File::create(path) truncates the regular file at path, if there is one
Truncated(fs, path) ==
    IF Resolve(path) \in DOMAIN fs THEN [fs EXCEPT ![Resolve(path)] = 0] ELSE fs

\* File::create(output_path) of the zip and tar drivers (compression.rs 108,
\* 300, 332): it fails on a directory and empties a file that is there
compress_create ==
    /\ pc \in {"zip_create", "tar_create"}
    /\ IF IsDir(output_path)
       THEN /\ pc' = "failed"
            /\ err' = "IOError"
            /\ UNCHANGED <<arc, fsSize>>
       ELSE /\ pc' = IF pc = "zip_create" THEN "zip_open" ELSE "tar_open"
            /\ arc' = CreatedArchive(FormatOf(kind))
            /\ fsSize' = Truncated(fsSize, output_path)
            /\ err' = err
    /\ UNCHANGED <<pureVars, op, kind, files, output_path, events, opened, encVars,
                   decVars>>

\* compress_zip_with_progress, from base_dir up to its loop (compression.rs
\* 116-129)
compress_zip_open ==
    /\ pc = "zip_open"
    /\ UNCHANGED arc
    /\ base_dir' = ZipBaseDir(files)
    /\ total_size' = calculate_total_size(files)
    /\ processed_size' = 0
    /\ index' = 0
    /\ pc' = "zip_loop"
    /\ UNCHANGED <<pureVars, callVars, events, opened, bytes_written, pending,
                   decVars, err>>

\* a loop that takes the inputs from the last to the first
compress_zip_entry_lastFirst ==
    /\ pc = "zip_loop"
    /\ index < Len(files)
    /\ LET file_path == files[Len(files) - index]
           visits == ZipWalk(file_path)
           before == BeforeInput(processed_size, total_size, index, Len(files))
           st == add_to_zip(visits, base_dir, total_size,
                            [entries |-> arc.entries,
                             events |-> Append(events, before),
                             processed |-> processed_size])
       IN  /\ arc' = [arc EXCEPT !.entries = st.entries]
           /\ events' = st.events
           /\ processed_size' = st.processed
           /\ opened' = opened \cup SetOf(visits)
    /\ index' = index + 1
    /\ UNCHANGED <<pureVars, callVars, pc, base_dir, total_size, bytes_written,
                   pending, decVars, err>>

\* one iteration of its loop (compression.rs 131-148, 226-279)
compress_zip_entry ==
    /\ pc = "zip_loop"
    /\ index < Len(files)
    /\ LET file_path == files[index + 1]
           visits == ZipWalk(file_path)
           before == BeforeInput(processed_size, total_size, index, Len(files))
           st == add_to_zip(visits, base_dir, total_size,
                            [entries |-> arc.entries,
                             events |-> Append(events, before),
                             processed |-> processed_size])
       IN  /\ arc' = [arc EXCEPT !.entries = st.entries]
           /\ events' = st.events
           /\ processed_size' = st.processed
           /\ opened' = opened \cup SetOf(visits)
    /\ index' = index + 1
    /\ UNCHANGED <<pureVars, callVars, pc, base_dir, total_size, bytes_written,
                   pending, decVars, err>>

\* the end of compress_zip_with_progress (compression.rs 150-152)
compress_zip_finish ==
    /\ pc = "zip_loop"
    /\ index = Len(files)
    /\ events' = Append(events, Hundred)       \* (100.0, "Complete")
    /\ \/ /\ arc' = [arc EXCEPT !.complete = TRUE, !.size = Len(arc.entries) + 1]
          /\ pc' = "completed"
          /\ err' = err
       \/ /\ pc' = "failed"                     \* zip.finish()? fails
          /\ err' = "IOError"
          /\ arc' = arc
    /\ UNCHANGED <<pureVars, callVars, opened, encVars, decVars>>

\* compress_tar_gz_with_progress / compress_tar_br_with_progress, from
\* total_size up to the loop (compression.rs 304-305, 336-337)
compress_tar_open ==
    /\ pc = "tar_open"
    /\ UNCHANGED arc
    /\ total_size' = calculate_total_size(files)
    /\ processed_size' = 0
    /\ index' = 0
    /\ pc' = "tar_loop"
    /\ UNCHANGED <<pureVars, callVars, events, opened, base_dir, bytes_written,
                   pending, decVars, err>>

\* one iteration of the tar loop (compression.rs 307-321, 360-379)
compress_tar_entry ==
    /\ pc = "tar_loop"
    /\ index < Len(files)
    /\ LET file_path == files[index + 1]
           before == BeforeInput(processed_size, total_size, index, Len(files))
       IN  /\ events' = Append(events, before)
           /\ IF TarPanics(file_path)
              THEN /\ pc' = "panicked"
                   /\ err' = "unwrap on None"
                   /\ UNCHANGED <<arc, processed_size, opened, index>>
              ELSE /\ arc' = [arc EXCEPT !.entries = @ \o TarEntries(file_path)]
                   /\ processed_size' = processed_size + calculate_path_size(file_path)
                   /\ opened' = opened \cup SetOf(ZipWalk(file_path))
                   /\ index' = index + 1
                   /\ UNCHANGED <<pc, err>>
    /\ UNCHANGED <<pureVars, callVars, base_dir, total_size, bytes_written,
                   pending, decVars>>

\* the end of the tar drivers (compression.rs 323-325, 355-357); the size of
\* the encoded file is the encoder's business
compress_tar_finish ==
    /\ pc = "tar_loop"
    /\ index = Len(files)
    /\ events' = Append(events, Hundred)       \* (100.0, "Complete")
    /\ \/ /\ \E sz \in 1..MaxEncoded :
                arc' = [arc EXCEPT !.complete = TRUE, !.size = sz]
          /\ pc' = "completed"
          /\ err' = err
       \/ /\ pc' = "failed"                     \* tar.finish()? fails
          /\ err' = "IOError"
          /\ arc' = arc
    /\ UNCHANGED <<pureVars, callVars, opened, encVars, decVars>>

\* compress_gz / compress_br / compress_bzip2 _with_progress, up to the copy
\* (compression.rs 424-433, 459-468, 481-490): the input is opened, the output
\* created, the ProgressWriter set up with total_size = the source's length.
\* How many bytes the encoder will write is the encoder's business.
compress_single_open ==
    /\ pc = "single_open"
    /\ LET file_path == files[1]
       IN  IF ~IsFile(file_path) /\ ~IsDir(file_path)
           THEN /\ pc' = "failed"               \* File::open fails
                /\ err' = "IOError"
                /\ UNCHANGED <<arc, opened, total_size, bytes_written, pending,
                               fsSize>>
           ELSE IF IsDir(output_path)
           THEN /\ pc' = "failed"               \* File::create fails
                /\ err' = "IOError"
                /\ opened' = opened \cup {file_path}
                /\ UNCHANGED <<arc, total_size, bytes_written, pending, fsSize>>
           ELSE IF IsDir(file_path)
           THEN /\ pc' = "failed"               \* reading a directory fails
                /\ err' = "IOError"
                /\ arc' = CreatedArchive(FormatOf(kind))
                /\ opened' = opened \cup {file_path}
                /\ fsSize' = Truncated(fsSize, output_path)
                /\ UNCHANGED <<total_size, bytes_written, pending>>
           ELSE /\ pc' = "single_write"
                /\ arc' = CreatedArchive(FormatOf(kind))
                /\ opened' = opened \cup {file_path}
                /\ fsSize' = Truncated(fsSize, output_path)
                /\ total_size' = Truncated(fsSize, output_path)[Resolve(file_path)]
                /\ bytes_written' = 0
                /\ pending' \in 1..MaxEncoded
                /\ err' = err
    /\ UNCHANGED <<pureVars, op, kind, files, output_path, events, base_dir,
                   processed_size, index, decVars>>

\* ProgressWriter::write (compression.rs 402-413): the inner write takes
\* n bytes of what the encoder hands over
ProgressWriter_write ==
    /\ pc = "single_write"
    /\ pending > 0
    /\ \E n \in 1..pending :
          /\ bytes_written' = bytes_written + n
          /\ pending' = pending - n
          /\ events' = IF total_size > 0
                       THEN Append(events,
                                   PctMin100(Pct(bytes_written + n, total_size)))
                       ELSE events
    /\ UNCHANGED <<pureVars, callVars, pc, arc, opened, base_dir, total_size,
                   processed_size, index, decVars, err>>

\* the gzip header name GzBuilder::filename stores (compression.rs 436-447)
GzHeaderName(file_path) ==
    IF HasFileName(file_path) THEN FileNameOrEmpty(file_path) ELSE NoName

\* the end of the single-stream drivers (compression.rs 449-452, 471-474,
\* 493-496): the whole source went through the encoder
compress_single_finish ==
    /\ pc = "single_write"
    /\ pending = 0
    /\ arc' = [fmt |-> FormatOf(kind),
               entries |-> <<Entry(<<>>, FileData(files[1]), FALSE)>>,
               hdrName |-> IF kind \in {"Gz", "Gzip"}
                           THEN GzHeaderName(files[1])
                           ELSE NoName,
               size |-> bytes_written,
               complete |-> TRUE]
    /\ pc' = "completed"
    /\ UNCHANGED <<pureVars, callVars, events, opened, encVars, decVars, err>>


(***************************************************************************)
(* decompress: the facade and its drivers.                                 *)
(***************************************************************************)
OutDir == <<Root, "o", "d">>
\* an output directory that is there before the call
ExistingOutDir == <<Root, "o">>

\* Path::extension().and_then(to_str).unwrap_or("")
Extension(p) ==
    IF ~HasFileName(p) THEN ""
    ELSE LET f == p[Len(p)]
             d == LastDot(f)
         IN  IF d <= 1 THEN "" ELSE SubSeq(f, d + 1, Len(f))

\* the driver decompress_files_with_progress selects (compression.rs 529-555)
DecoderFor(file_path) ==
    LET file_name == FileNameOrEmpty(file_path)
        ext == Extension(file_path)
    IN  IF EndsWith(file_name, ".tar.gz") \/ EndsWith(file_name, ".tgz") THEN "tar.gz"
        ELSE IF EndsWith(file_name, ".tar.br") THEN "tar.br"
        ELSE IF ext = "zip" THEN "zip"
        ELSE IF ext \in {"gz", "gzip"} THEN "gz"
        ELSE IF ext = "br" THEN "br"
        ELSE IF ext \in {"bz2", "bzip2"} THEN "bz2"
        ELSE "unsupported"

\* is_compressed_file(path) (compression.rs 828-842)
is_compressed_file(path) ==
    LET file_name == FileNameOrEmpty(path)
    IN  IF \/ EndsWith(file_name, ".tar.gz")
           \/ EndsWith(file_name, ".tgz")
           \/ EndsWith(file_name, ".tar.br")
        THEN TRUE
        ELSE Extension(path) \in {"zip", "gz", "br", "gzip", "bzip2", "bz2", "rar"}

\* std::fs::create_dir_all(p): p and its missing ancestors
RECURSIVE Prefixes(_)
Prefixes(abs) ==
    IF Len(abs) <= 1 THEN {abs}
    ELSE {abs} \cup Prefixes(SubSeq(abs, 1, Len(abs) - 1))

create_dir_all(p) == Prefixes(Resolve(p)) \ TreeDirs

\* the caller starts a decompress of the archive compress has written
\* (compression.rs 500-502)
decompress_files ==
    /\ op = "compress"
    /\ pc = "completed"
    /\ op' = "decompress"
    /\ pc' = "idle"
    /\ events' = <<>>
    /\ output_dir' = OutDir
    /\ UNCHANGED <<pureVars, kind, files, output_path, fsSize, arc, opened,
                   encVars, bytes_read, unread, outFiles, outDirs, touched, err>>

\* decompress_files_with_progress (compression.rs 505-556)
decompress_files_with_progress ==
    /\ op = "decompress"
    /\ pc = "idle"
    /\ IF arc.fmt = "none"
       THEN /\ pc' = "failed"                   \* std::fs::metadata fails
            /\ err' = "IOError"
            /\ UNCHANGED total_size
       ELSE IF DecoderFor(output_path) = "unsupported"
       THEN /\ pc' = "failed"
            /\ err' = "UnsupportedFormat"
            /\ UNCHANGED total_size
       ELSE /\ pc' = CASE DecoderFor(output_path) = "zip" -> "dzip_open"
                       [] DecoderFor(output_path) \in {"tar.gz", "tar.br"} -> "dtar_open"
                       [] OTHER -> "dsingle_open"
            /\ total_size' = arc.size           \* file_size
            /\ err' = err
    /\ UNCHANGED <<pureVars, callVars, arc, events, opened, base_dir,
                   processed_size, index, bytes_written, pending, decVars>>

\* decompress_zip_with_progress, up to its loop (compression.rs 601-607)
decompress_zip_open ==
    /\ pc = "dzip_open"
    /\ IF arc.fmt # "zip" \/ ~arc.complete
       THEN /\ pc' = "failed"                   \* ZipArchive::new rejects it
            /\ err' = "CodecError"
            /\ UNCHANGED <<outDirs, index>>
       ELSE /\ pc' = "dzip_loop"
            /\ outDirs' = outDirs \cup create_dir_all(output_dir)
            /\ index' = 0
            /\ err' = err
    /\ UNCHANGED <<pureVars, callVars, arc, events, opened, base_dir, total_size,
                   processed_size, bytes_written, pending, output_dir, bytes_read,
                   unread, outFiles, touched>>

\* let outpath = output_dir.join(file.name()) (compression.rs 615)
ZipOutPath(dir, name) == Join(dir, name)

\* create_dir_all(p) fails when p or one of its ancestors is a regular file
DirBlocked(p, made) ==
    \E q \in Prefixes(Resolve(p)) : q \in TreeFiles \cup DOMAIN made

\* File::create(p) fails when p is a directory
FileBlocked(p, dirs) == Resolve(p) \in TreeDirs \cup dirs

\* the same iteration in a driver that removes what it extracted when an
\* entry fails
decompress_zip_entry_rollback ==
    /\ pc = "dzip_loop"
    /\ index < Len(arc.entries)
    /\ LET file == arc.entries[index + 1]
           outpath == ZipOutPath(output_dir, file.name)
           made == IF file.dir THEN create_dir_all(outpath)
                   ELSE create_dir_all(Parent(outpath))
       IN  /\ events' = Append(events, Pct(index, Len(arc.entries)))
           /\ IF \/ DirBlocked(IF file.dir THEN outpath ELSE Parent(outpath), outFiles)
                 \/ ~file.dir /\ FileBlocked(outpath, outDirs \cup made)
              THEN /\ pc' = "failed"
                   /\ err' = "IOError"
                   /\ outDirs' = {}
                   /\ outFiles' = <<>>
                   /\ UNCHANGED <<touched, index>>
              ELSE /\ outDirs' = outDirs \cup made
                   /\ outFiles' = IF file.dir THEN outFiles
                                  ELSE (Resolve(outpath) :> file.data) @@ outFiles
                   /\ touched' = touched \cup {outpath}
                   /\ index' = index + 1
                   /\ UNCHANGED <<pc, err>>
    /\ UNCHANGED <<pureVars, callVars, arc, opened, base_dir, total_size,
                   processed_size, bytes_written, pending, output_dir, bytes_read,
                   unread>>

\* one iteration of its loop (compression.rs 609-633); an error of
\* create_dir_all or File::create ends the call by `?`
decompress_zip_entry ==
    /\ pc = "dzip_loop"
    /\ index < Len(arc.entries)
    /\ LET file == arc.entries[index + 1]
           outpath == ZipOutPath(output_dir, file.name)
           made == IF file.dir THEN create_dir_all(outpath)
                   ELSE create_dir_all(Parent(outpath))
       IN  /\ events' = Append(events, Pct(index, Len(arc.entries)))
           /\ IF DirBlocked(IF file.dir THEN outpath ELSE Parent(outpath), outFiles)
              THEN /\ pc' = "failed"
                   /\ err' = "IOError"
                   /\ UNCHANGED <<outDirs, outFiles, touched, index>>
              ELSE IF ~file.dir /\ FileBlocked(outpath, outDirs \cup made)
              THEN /\ pc' = "failed"
                   /\ err' = "IOError"
                   /\ outDirs' = outDirs \cup made
                   /\ UNCHANGED <<outFiles, touched, index>>
              ELSE /\ outDirs' = outDirs \cup made
                   /\ outFiles' = IF file.dir THEN outFiles
                                  ELSE (Resolve(outpath) :> file.data) @@ outFiles
                   /\ touched' = touched \cup {outpath}
                   /\ index' = index + 1
                   /\ UNCHANGED <<pc, err>>
    /\ UNCHANGED <<pureVars, callVars, arc, opened, base_dir, total_size,
                   processed_size, bytes_written, pending, output_dir, bytes_read,
                   unread>>

\* the end of decompress_zip_with_progress (compression.rs 635-636)
decompress_zip_finish ==
    /\ pc = "dzip_loop"
    /\ index = Len(arc.entries)
    /\ events' = Append(events, Hundred)
    /\ pc' = "completed"
    /\ UNCHANGED <<pureVars, callVars, arc, opened, encVars, decVars, err>>

\* decompress_tar_gz / decompress_tar_br _with_progress, up to unpack
\* (compression.rs 648-654, 668-674)
decompress_tar_open ==
    /\ pc = "dtar_open"
    /\ bytes_read' = 0
    /\ unread' = arc.size
    /\ outDirs' = outDirs \cup create_dir_all(output_dir)
    /\ pc' = "dtar_read"
    /\ UNCHANGED <<pureVars, callVars, arc, events, opened, encVars, output_dir,
                   outFiles, touched, err>>

\* ProgressReader::read (compression.rs 579-590): the inner read yields n bytes
ProgressReader_read ==
    /\ pc \in {"dtar_read", "dsingle_read"}
    /\ unread > 0
    /\ \E n \in 1..unread :
          /\ bytes_read' = bytes_read + n
          /\ unread' = unread - n
          /\ events' = IF total_size > 0
                       THEN Append(events, PctMin100(Pct(bytes_read + n, total_size)))
                       ELSE events
    /\ UNCHANGED <<pureVars, callVars, pc, arc, opened, encVars, output_dir,
                   outFiles, outDirs, touched, err>>

\* tar::Archive::unpack keeps an entry only when its name has no "..", and
\* drops root and "." components from it
TarKeeps(name) == \A i \in 1..Len(name) : name[i] # ParentDir
TarOutPath(dir, name) == dir \o SelectSeq(name, IsNormal)

RECURSIVE TarUnpack(_, _, _)
TarUnpack(entries, dir, st) ==
    IF entries = <<>> THEN st
    ELSE LET e == Head(entries)
             outpath == TarOutPath(dir, e.name)
         IN  IF ~TarKeeps(e.name) \/ outpath = dir
             THEN TarUnpack(Tail(entries), dir, st)
             ELSE IF e.dir
             THEN TarUnpack(Tail(entries), dir,
                    [st EXCEPT !.dirs = @ \cup create_dir_all(outpath),
                               !.touched = @ \cup {outpath}])
             ELSE TarUnpack(Tail(entries), dir,
                    [st EXCEPT !.dirs = @ \cup create_dir_all(Parent(outpath)),
                               !.files = (Resolve(outpath) :> e.data) @@ @,
                               !.touched = @ \cup {outpath}])

\* archive.unpack(output_dir) (compression.rs 655-656, 675-676)
decompress_tar_unpack ==
    /\ pc = "dtar_read"
    /\ unread = 0
    /\ IF arc.fmt # DecoderFor(output_path) \/ ~arc.complete
       THEN /\ pc' = "failed"
            /\ err' = "CodecError"
            /\ UNCHANGED <<outFiles, outDirs, touched>>
       ELSE LET st == TarUnpack(arc.entries, output_dir,
                                [files |-> outFiles, dirs |-> outDirs,
                                 touched |-> touched])
            IN  /\ outFiles' = st.files
                /\ outDirs' = st.dirs
                /\ touched' = st.touched
                /\ pc' = "completed"
                /\ err' = err
    /\ UNCHANGED <<pureVars, callVars, arc, events, opened, encVars, output_dir,
                   bytes_read, unread>>

\* output_name of decompress_gz_with_progress taken from the archive's own
\* name alone
SingleOutputName_noHeader(file_path, a) ==
    fallback_filename_from_compressed(file_path)

\* output_name of the single-stream drivers (compression.rs 695-708, 768, 793):
\* gzip takes the header's filename when it has one
SingleOutputName(file_path, a) ==
    IF DecoderFor(file_path) = "gz" /\ a.fmt = "gz" /\ a.hdrName # NoName
    THEN a.hdrName
    ELSE fallback_filename_from_compressed(file_path)

\* a driver that creates the output file without creating the directory
decompress_single_open_noDir ==
    /\ pc = "dsingle_open"
    /\ LET out == Join(output_dir, <<SingleOutputName(output_path, arc)>>)
       IN  /\ outDirs' = outDirs
           /\ outFiles' = (Resolve(out) :> <<>>) @@ outFiles
           /\ touched' = touched \cup {out}
    /\ bytes_read' = 0
    /\ unread' = arc.size
    /\ pc' = "dsingle_read"
    /\ UNCHANGED <<pureVars, callVars, arc, events, opened, encVars, output_dir,
                   err>>

\* decompress_gz / decompress_br / decompress_bzip2 _with_progress, up to the
\* copy (compression.rs 688-711, 760-770, 785-795)
decompress_single_open ==
    /\ pc = "dsingle_open"
    /\ LET out == Join(output_dir, <<SingleOutputName(output_path, arc)>>)
       IN  /\ outDirs' = outDirs \cup create_dir_all(output_dir)
           /\ outFiles' = (Resolve(out) :> <<>>) @@ outFiles
           /\ touched' = touched \cup {out}
    /\ bytes_read' = 0
    /\ unread' = arc.size
    /\ pc' = "dsingle_read"
    /\ UNCHANGED <<pureVars, callVars, arc, events, opened, encVars, output_dir,
                   err>>

\* std::io::copy(&mut decoder, &mut output) done (compression.rs 713-714,
\* 772-773, 797-798)
decompress_single_finish ==
    /\ pc = "dsingle_read"
    /\ unread = 0
    /\ IF arc.fmt # DecoderFor(output_path) \/ ~arc.complete
       THEN /\ pc' = "failed"
            /\ err' = "CodecError"
            /\ UNCHANGED outFiles
       ELSE LET out == Join(output_dir, <<SingleOutputName(output_path, arc)>>)
            IN  /\ outFiles' = (Resolve(out) :> arc.entries[1].data) @@ outFiles
                /\ pc' = "completed"
                /\ err' = err
    /\ UNCHANGED <<pureVars, callVars, arc, events, opened, encVars, output_dir,
                   bytes_read, unread, outDirs, touched>>


(***************************************************************************)
(* The engine: one compress call on inputs of the tree, which the caller   *)
(* may follow by a decompress of the archive written; or one decompress    *)
(* call on an archive that came from elsewhere.                            *)
(***************************************************************************)
RECURSIVE SeqsUpTo(_, _)
SeqsUpTo(S, n) ==
    IF n = 0 THEN {<<>>}
    ELSE LET shorter == SeqsUpTo(S, n - 1)
         IN  shorter \cup {Append(q, x) : q \in shorter, x \in S}

\* no helper loop entered
NoLocals == [counter |-> 0, unique_path |-> NoPath, stack |-> <<>>, total |-> 0]

HelperIdle ==
    /\ callee = "none"
    /\ arg = <<>>
    /\ ret = <<>>
    /\ locals = NoLocals

\* a single task
NoCall == [op |-> "none"]

TasksIdle ==
    /\ parked = NoCall
    /\ running = 1

PureIdle ==
    /\ TasksIdle
    /\ nameArg = NoPath
    /\ nameRet = NoName
    /\ baseArg = NoPath
    /\ baseRet = NoPath
    /\ HelperIdle

InputPaths ==
    { <<Root, "w", "c", "a", "x.txt">>,      \* a file, absolute
      <<Root, "w", "c", "a">>,               \* a directory, absolute
      <<"a", "x.txt">>,                      \* files and directories, relative
      <<"b", "y.txt">>,
      <<"b">>,
      <<ParentDir>>,                         \* the parent of the working directory
      <<"nope.txt">> }                       \* does not exist

Distinct(q) == \A i, j \in 1..Len(q) : i # j => q[i] # q[j]

InputSeqs == {q \in SeqsUpTo(InputPaths, MaxInputs) : Distinct(q)}

\* the archive names a caller gives: a stem and the kind's extension
OutStems(k) == IF supports_multiple_files(k) THEN {"archive"} ELSE {"data", "x.txt"}
OutputPaths(k) == {<<Root, "o", st \o extension(k)>> : st \in OutStems(k)}

EngineIdle ==
    /\ pc = "idle"
    /\ events = <<>>
    /\ opened = {}
    /\ base_dir = NoPath
    /\ total_size = 0
    /\ processed_size = 0
    /\ index = 0
    /\ bytes_written = 0
    /\ pending = 0
    /\ bytes_read = 0
    /\ unread = 0
    /\ outFiles = <<>>
    /\ outDirs = {}
    /\ touched = {}
    /\ err = ""

InitCompress ==
    /\ op = "compress"
    /\ kind \in Kinds
    /\ files \in InputSeqs
    /\ output_path \in OutputPaths(kind)
    /\ fsSize \in [TreeFiles -> 0..MaxFileSize]
    /\ arc = NoArchive
    /\ output_dir = NoPath

\* archives made elsewhere: entries with names of every shape
ForeignEntries ==
    { Entry(<<"ok", "in.txt">>, <<9>>, FALSE),
      Entry(<<ParentDir, "evil.txt">>, <<8>>, FALSE),
      Entry(<<Root, "abs.txt">>, <<7>>, FALSE),
      Entry(<<"sub">>, <<>>, TRUE) }

ForeignContainer(fmt, entries) ==
    [fmt |-> fmt, entries |-> entries, hdrName |-> NoName, size |-> 1,
     complete |-> TRUE]

ForeignStream(fmt, hdr) ==
    [fmt |-> fmt, entries |-> <<Entry(<<>>, <<5>>, FALSE)>>, hdrName |-> hdr,
     size |-> 1, complete |-> TRUE]

\* a file entry of the name of the directory entry: extracting it after
\* the directory fails
ClashingEntry == Entry(<<"sub">>, <<6>>, FALSE)

ForeignCalls ==
    {[path |-> <<Root, "o", "f.zip">>, arc |-> ForeignContainer("zip", es)] :
        es \in {q \in SeqsUpTo(ForeignEntries \cup {ClashingEntry}, MaxForeignEntries) :
                  Distinct(q)}}
    \cup
    {[path |-> <<Root, "o", "f.tgz">>, arc |-> ForeignContainer("tar.gz", es)] :
        es \in {q \in SeqsUpTo(ForeignEntries, MaxForeignEntries) : Distinct(q)}}
    \cup
    { [path |-> <<Root, "o", "data.gz">>, arc |-> ForeignStream("gz", NoName)],
      [path |-> <<Root, "o", "data.gz">>, arc |-> ForeignStream("gz", "orig.bin")],
      [path |-> <<Root, "o", "m.zip">>, arc |-> ForeignStream("gz", NoName)],
      [path |-> <<Root, "o", "m.br">>, arc |-> ForeignStream("bz2", NoName)],
      [path |-> <<Root, "o", "m.tar.br">>, arc |-> ForeignStream("br", NoName)],
      [path |-> <<Root, "o", "u.rar">>, arc |-> ForeignStream("gz", NoName)],
      [path |-> <<Root, "o", "u.ZIP">>, arc |-> ForeignContainer("zip", <<>>)],
      [path |-> <<Root, "o", "gone.zip">>, arc |-> NoArchive] }

InitForeign ==
    /\ op = "decompress"
    /\ kind = "none"
    /\ files = <<>>
    /\ fsSize = [f \in TreeFiles |-> 0]
    /\ \E c \in ForeignCalls :
          /\ output_path = c.path
          /\ arc = c.arc
    /\ output_dir \in {OutDir, ExistingOutDir}

Init ==
    /\ PureIdle
    /\ EngineIdle
    /\ (InitCompress \/ InitForeign)

Next ==
    \/ compress_files_with_progress
    \/ compress_create
    \/ compress_zip_open
    \/ compress_zip_entry
    \/ compress_zip_finish
    \/ compress_tar_open
    \/ compress_tar_entry
    \/ compress_tar_finish
    \/ compress_single_open
    \/ ProgressWriter_write
    \/ compress_single_finish
    \/ decompress_files
    \/ decompress_files_with_progress
    \/ decompress_zip_open
    \/ decompress_zip_entry
    \/ decompress_zip_finish
    \/ decompress_tar_open
    \/ ProgressReader_read
    \/ decompress_tar_unpack
    \/ decompress_single_open
    \/ decompress_single_finish

Spec == Init /\ [][Next]_vars

(***************************************************************************)
(* The resolvers called on their own: every input is drawn in the initial  *)
(* state and one step applies the function.                                *)
(***************************************************************************)
NameStems == {"", "a", "a.b", ".", "notes.txt", "data", "weird", "x.tar", ".hidden"}
NameSuffixes == {"", ".gz", ".gzip", ".br", ".bz2", ".bzip2", ".GZ", ".zip",
                 ".gz.gz", ".txt", ".bz", "gz"}
NameInputs ==
    {p \in {<<"d", st \o su>> : st \in NameStems, su \in NameSuffixes} :
        p[2] # "" /\ IsNormal(p[2])}
        \cup {<<ParentDir>>, <<Root>>, <<>>}

BasePaths ==
    { <<Root, "a", "b", "c.txt">>, <<Root, "a", "b", "d", "e.txt">>,
      <<Root, "a", "f.txt">>, <<Root, "g.txt">>, <<Root>>,
      <<"a", "x.txt">>, <<"a", "b", "y.txt">>, <<"b", "y.txt">>, <<"x.txt">>,
      <<ParentDir, "z.txt">>, <<CurDir, "a", "x.txt">>, <<ParentDir>> }

\* the engine at rest, no call made
EngineAtRest ==
    /\ EngineIdle
    /\ TasksIdle
    /\ op = "none"
    /\ kind = "none"
    /\ files = <<>>
    /\ output_path = NoPath
    /\ fsSize = [f \in TreeFiles |-> 0]
    /\ arc = NoArchive
    /\ output_dir = NoPath

engineVars == <<op, pc, kind, files, output_path, fsSize, arc, events, opened,
                base_dir, total_size, processed_size, index, bytes_written,
                pending, output_dir, bytes_read, unread, outFiles, outDirs,
                touched, err, parked, running>>

InitName ==
    /\ nameArg \in NameInputs
    /\ nameRet = NoName
    /\ baseArg = NoPath
    /\ baseRet = NoPath
    /\ HelperIdle
    /\ EngineAtRest

RecoverName ==
    /\ nameArg # NoPath
    /\ nameRet = NoName
    /\ nameRet' = fallback_filename_from_compressed(nameArg)
    /\ UNCHANGED <<nameArg, baseArg, baseRet, helperVars, engineVars>>

NextName == RecoverName

SpecName == InitName /\ [][NextName]_vars

InitBase ==
    /\ baseArg \in SeqsUpTo(BasePaths, MaxBaseInputs)
    /\ baseRet = NoPath
    /\ nameArg = NoPath
    /\ nameRet = NoName
    /\ HelperIdle
    /\ EngineAtRest

ResolveBase ==
    /\ baseArg # NoPath
    /\ baseRet = NoPath
    /\ baseRet' = CommonBase(baseArg)
    /\ UNCHANGED <<nameArg, nameRet, baseArg, helperVars, engineVars>>

NextBase == ResolveBase

SpecBase == InitBase /\ [][NextBase]_vars

(***************************************************************************)
(* The remaining helper functions called on their own: the callee and its  *)
(* argument are drawn in the initial state, one step applies the function  *)
(* and appends what it returned to ret.                                    *)
(***************************************************************************)
SuffixInputs ==
    {".zip", ".ZIP", ".Zip", ".tar.gz", ".TAR.GZ", ".tgz", ".TGZ", ".tar.br",
     ".gz", ".Gz", ".gzip", ".br", ".BR", ".bz2", ".bzip2", ".BZIP2",
     "", "zip", "gz", ".", ".rar", ".tar", ".7z", ".xz", ".tar.bz2", ".gz.",
     "..gz", ".zipp", ".bz", ".tbr"}

ArchiveNames ==
    {"x.zip", "x.tar.gz", "x.tgz", "x.tar.br", "x.gz", "x.gzip", "x.br", "x.bz2",
     "x.bzip2", "x.rar", "x.ZIP", "x.Tar.Gz", "x.txt", "x", "x.tar", "x.tar.bz2",
     "x.7z", "x.gz.txt", "x.zip.bak", ".gz", ".zip", ".tgz", "zip", "tgz", "x.",
     "x.zipx", "a.b.br"}

ArchivePaths ==
    {<<Root, "o", n>> : n \in ArchiveNames} \cup {<<n>> : n \in ArchiveNames}
        \cup {<<Root>>, <<ParentDir>>, <<>>}

\* parent().unwrap_or(Path::new("."))
ParentOrCurDir(p) == IF HasParent(p) THEN Parent(p) ELSE <<CurDir>>

\* "{} ({})" of a name and a counter
Numbered(name, counter) == name \o " (" \o Decimal(counter) \o ")"

\* get_unique_name: the body of its loop (file_utils.rs 34-46), the next
\* candidate; the candidate stays as it is when base_path has no file stem
get_unique_name_next(base_path, counter, unique_path) ==
    IF HasFileName(base_path)
    THEN IF HasExtension(base_path)
         THEN JoinName(ParentOrCurDir(base_path),
                       Numbered(FileStemOrEmpty(base_path), counter)
                           \o "." \o Extension(base_path))
         ELSE JoinName(ParentOrCurDir(base_path),
                       Numbered(FileStemOrEmpty(base_path), counter))
    ELSE unique_path

\* generate_output_dir: the first candidate (main.rs 713-717) and the body
\* of its loop (720-721)
generate_output_dir_first(file) ==
    JoinName(ParentOrCurDir(file), FileStemOrEmpty(file))

generate_output_dir_next(file, counter) ==
    JoinName(ParentOrCurDir(file), Numbered(FileStemOrEmpty(file), counter))

\* 'base (N)': the base path with " (N)" appended to its name
WithCounter(base, n) ==
    Append(SubSeq(base, 1, Len(base) - 1), Numbered(base[Len(base)], n))

\* the paths that exist whatever else does
AlwaysExist == {<<Root>>, <<ParentDir>>, <<CurDir>>}

UniqueBases ==
    { <<Root, "o", "out">>, <<Root, "o", "a.txt">>, <<"out">>, <<Root>>,
      <<ParentDir>> }

UniqueArchives == { <<Root, "o", "f.zip">>, <<"f.tar.gz">>, <<Root, "o", "x.txt.gz">> }

\* the names that may be taken when get_unique_name(base) is called
TakenNames(base) ==
    IF ~HasFileName(base) THEN {}
    ELSE {base}
         \cup {WithCounter(base, n) : n \in 2..MaxTaken}
         \cup {get_unique_name_next(base, n, base) : n \in 2..MaxTaken}

UniqueCalls ==
    UNION {{[callee |-> "get_unique_name",
             arg |-> [path |-> b, exists |-> AlwaysExist \cup E]] :
               E \in SUBSET TakenNames(b)} : b \in UniqueBases}
    \cup
    UNION {{[callee |-> "generate_output_dir",
             arg |-> [path |-> f, exists |-> AlwaysExist \cup E]] :
               E \in SUBSET TakenNames(generate_output_dir_first(f))} :
                  f \in UniqueArchives}

\* a tree with a symbolic link, /t/d/up, that points back at /t
LinkFile == <<Root, "t", "d", "f">>
LinkPath == <<Root, "t", "d", "up">>
LinkTarget == <<Root, "t">>

LinkDirList(linked) ==
    (<<Root, "t">> :> <<"d">>)
      @@ (<<Root, "t", "d">> :> IF linked THEN <<"f", "up">> ELSE <<"f">>)

\* the kernel's resolution of a path: the place it names and how many
\* symbolic links were followed on the way
RECURSIVE FollowLinks(_, _, _, _)
FollowLinks(acc, rest, links, linked) ==
    IF rest = <<>> THEN [path |-> acc, links |-> links]
    ELSE LET next == Append(acc, Head(rest))
         IN  IF linked /\ next = LinkPath
             THEN FollowLinks(LinkTarget, Tail(rest), links + 1, linked)
             ELSE FollowLinks(next, Tail(rest), links, linked)

\* Path::is_file / Path::is_dir there: false when resolution gives up on
\* too many links
LinkIsFile(p, linked) ==
    LET r == FollowLinks(<<>>, p, 0, linked)
    IN  r.links <= MaxSymlinks /\ r.path = LinkFile

LinkIsDir(p, linked) ==
    LET r == FollowLinks(<<>>, p, 0, linked)
    IN  r.links <= MaxSymlinks /\ r.path \in DOMAIN LinkDirList(linked)

\* the paths read_dir(p) yields
LinkReadDir(p, linked) ==
    LET names == LinkDirList(linked)[FollowLinks(<<>>, p, 0, linked).path]
    IN  [i \in 1..Len(names) |-> Append(p, names[i])]

SizeCalls ==
    {[callee |-> "calculate_total_size",
      arg |-> [files |-> fs, linked |-> l, len |-> n]] :
        fs \in { <<LinkTarget>>, <<<<Root, "t", "d">>>>, <<LinkFile>>,
                 <<LinkFile, LinkTarget>>, <<>> },
        l \in BOOLEAN, n \in 0..MaxFileSize}

\* the counting wrappers on their own: a wrapper that has counted `count`
\* of `total_size` bytes is handed a buffer, and the inner stream takes or
\* yields some of it, or fails
Bytes == {5, 6}
Buffers == SeqsUpTo(Bytes, MaxEncoded)

\* inner.write(buf): some prefix of buf is taken, or the write fails
InnerWrites(buf) ==
    {[ok |-> TRUE, bytes |-> n, error |-> ""] : n \in 0..Len(buf)}
        \cup {[ok |-> FALSE, bytes |-> 0, error |-> "IOError"]}

\* inner.read(buf): some bytes arrive, none at the end, or the read fails
InnerReads ==
    {[ok |-> TRUE, data |-> d, error |-> ""] : d \in Buffers}
        \cup {[ok |-> FALSE, data |-> <<>>, error |-> "IOError"]}

\* a reader that reports also when total_size is 0
ProgressReader_read_alwaysReports(self, inner) ==
    IF ~inner.ok
    THEN [count |-> self.count, calls |-> <<>>,
          result |-> [ok |-> FALSE, bytes |-> 0, error |-> inner.error],
          passed |-> <<>>]
    ELSE LET bytes == Len(inner.data)
             counted == self.count + bytes
         IN  [count |-> counted,
              calls |-> <<PctMin100(Pct(counted, self.total_size))>>,
              result |-> [ok |-> TRUE, bytes |-> bytes, error |-> ""],
              passed |-> inner.data]

\* ProgressReader::read (compression.rs 579-590): what the caller gets back,
\* the counter afterwards, the callbacks made, the bytes put in the buffer
ProgressReader_read_result(self, inner) ==
    IF ~inner.ok
    THEN [count |-> self.count, calls |-> <<>>,
          result |-> [ok |-> FALSE, bytes |-> 0, error |-> inner.error],
          passed |-> <<>>]
    ELSE LET bytes == Len(inner.data)
             counted == self.count + bytes
         IN  [count |-> counted,
              calls |-> IF self.total_size > 0
                        THEN <<PctMin100(Pct(counted, self.total_size))>>
                        ELSE <<>>,
              result |-> [ok |-> TRUE, bytes |-> bytes, error |-> ""],
              passed |-> inner.data]

\* a writer that counts the buffer before the inner stream has taken it
ProgressWriter_write_countsFirst(self, buf, inner) ==
    LET counted == self.count + Len(buf)
        calls == IF self.total_size > 0
                 THEN <<PctMin100(Pct(counted, self.total_size))>>
                 ELSE <<>>
    IN  [count |-> counted, calls |-> calls,
         result |-> [ok |-> inner.ok, bytes |-> inner.bytes, error |-> inner.error],
         passed |-> buf]

\* ProgressWriter::write (compression.rs 402-413): what the caller gets back,
\* the counter afterwards, the callbacks made, the bytes handed to the inner
\* stream
ProgressWriter_write_result(self, buf, inner) ==
    IF ~inner.ok
    THEN [count |-> self.count, calls |-> <<>>,
          result |-> [ok |-> FALSE, bytes |-> 0, error |-> inner.error],
          passed |-> buf]
    ELSE LET counted == self.count + inner.bytes
         IN  [count |-> counted,
              calls |-> IF self.total_size > 0
                        THEN <<PctMin100(Pct(counted, self.total_size))>>
                        ELSE <<>>,
              result |-> [ok |-> TRUE, bytes |-> inner.bytes, error |-> ""],
              passed |-> buf]

WrapperStates ==
    {[total_size |-> t, count |-> c] : t \in 0..MaxFileSize, c \in 0..MaxEncoded}

WrapperCalls ==
    {[callee |-> "ProgressWriter::write",
      arg |-> [self |-> w, buf |-> b, inner |-> r]] :
        w \in WrapperStates,
        b \in Buffers,
        r \in UNION {InnerWrites(x) : x \in Buffers}}
    \cup
    {[callee |-> "ProgressReader::read",
      arg |-> [self |-> w, buf |-> <<>>, inner |-> r]] :
        w \in WrapperStates, r \in InnerReads}

\* the driver decompress_files_with_progress selects in a build with or
\* without the feature "rar-support" (compression.rs 529-555)
DriverFor(file_path, rar_support) ==
    IF DecoderFor(file_path) # "unsupported" THEN DecoderFor(file_path)
    ELSE IF rar_support /\ Extension(file_path) = "rar" THEN "rar"
    ELSE "unsupported"

\* the dispatcher on its own, in either build
DispatchCalls ==
    {[callee |-> "decompress_files_with_progress",
      arg |-> [path |-> x, rar_support |-> f]] :
        x \in ArchivePaths, f \in BOOLEAN}

HelperCalls ==
    {[callee |-> "extension", arg |-> k] : k \in Kinds}
    \cup DispatchCalls
    \cup {c \in WrapperCalls :
            c.callee = "ProgressWriter::write" => c.arg.inner \in InnerWrites(c.arg.buf)}
    \cup {[callee |-> "from_extension", arg |-> x] : x \in SuffixInputs}
    \cup {[callee |-> "is_compressed_file", arg |-> x] : x \in ArchivePaths}
    \cup UniqueCalls
    \cup SizeCalls

InitHelper ==
    /\ \E c \in HelperCalls :
          /\ callee = c.callee
          /\ arg = c.arg
    /\ ret = <<>>
    /\ locals = NoLocals
    /\ nameArg = NoPath
    /\ nameRet = NoName
    /\ baseArg = NoPath
    /\ baseRet = NoPath
    /\ EngineAtRest

HelperFrame == UNCHANGED <<nameArg, nameRet, baseArg, baseRet, callee, arg, engineVars>>

\* a helper that does not loop
NoLoop == HelperFrame /\ UNCHANGED locals

\* k.extension()
extension_call ==
    /\ callee = "extension"
    /\ ret = <<>>
    /\ ret' = <<extension(arg)>>
    /\ NoLoop

\* CompressionType::from_extension(ext), on a given text or on what
\* extension() just returned
from_extension_call ==
    /\ \/ /\ callee = "from_extension"
          /\ ret = <<>>
          /\ ret' = <<from_extension(arg)>>
       \/ /\ callee = "extension"
          /\ Len(ret) = 1
          /\ ret' = Append(ret, from_extension(ret[1]))
    /\ NoLoop

is_compressed_file_call ==
    /\ callee = "is_compressed_file"
    /\ ret = <<>>
    /\ ret' = <<is_compressed_file(arg)>>
    /\ NoLoop

\* get_unique_name(base_path): entry, one turn of the loop, return
get_unique_name_enter ==
    /\ callee = "get_unique_name"
    /\ ret = <<>>
    /\ locals = NoLocals
    /\ locals' = [locals EXCEPT !.counter = 1, !.unique_path = arg.path]
    /\ UNCHANGED ret
    /\ HelperFrame

get_unique_name_loop ==
    /\ callee = "get_unique_name"
    /\ ret = <<>>
    /\ locals # NoLocals
    /\ locals.unique_path \in arg.exists
    /\ locals.counter < MaxCounter
    /\ locals' = [locals EXCEPT
                    !.counter = @ + 1,
                    !.unique_path = get_unique_name_next(arg.path, locals.counter + 1,
                                                         locals.unique_path)]
    /\ UNCHANGED ret
    /\ HelperFrame

get_unique_name_return ==
    /\ callee = "get_unique_name"
    /\ ret = <<>>
    /\ locals # NoLocals
    /\ locals.unique_path \notin arg.exists
    /\ ret' = <<locals.unique_path>>
    /\ UNCHANGED locals
    /\ HelperFrame

\* generate_output_dir(file): entry, one turn of the loop, return
generate_output_dir_enter ==
    /\ callee = "generate_output_dir"
    /\ ret = <<>>
    /\ locals = NoLocals
    /\ locals' = [locals EXCEPT !.counter = 1,
                                !.unique_path = generate_output_dir_first(arg.path)]
    /\ UNCHANGED ret
    /\ HelperFrame

generate_output_dir_loop ==
    /\ callee = "generate_output_dir"
    /\ ret = <<>>
    /\ locals # NoLocals
    /\ locals.unique_path \in arg.exists
    /\ locals.counter < MaxCounter
    /\ locals' = [locals EXCEPT
                    !.counter = @ + 1,
                    !.unique_path = generate_output_dir_next(arg.path, locals.counter + 1)]
    /\ UNCHANGED ret
    /\ HelperFrame

generate_output_dir_return ==
    /\ callee = "generate_output_dir"
    /\ ret = <<>>
    /\ locals # NoLocals
    /\ locals.unique_path \notin arg.exists
    /\ ret' = <<locals.unique_path>>
    /\ UNCHANGED locals
    /\ HelperFrame

\* calculate_total_size(files) (compression.rs 155-161): entry, one call of
\* calculate_path_size (163-174) on the next path, return
calculate_total_size_enter ==
    /\ callee = "calculate_total_size"
    /\ ret = <<>>
    /\ locals = NoLocals
    /\ locals' = [locals EXCEPT !.counter = 1, !.stack = arg.files]
    /\ UNCHANGED ret
    /\ HelperFrame

calculate_path_size_call ==
    /\ callee = "calculate_total_size"
    /\ ret = <<>>
    /\ locals.counter = 1
    /\ locals.stack # <<>>
    /\ LET path == Head(locals.stack)
       IN  locals' =
             IF LinkIsFile(path, arg.linked)
             THEN [locals EXCEPT !.stack = Tail(@), !.total = @ + arg.len]
             ELSE IF LinkIsDir(path, arg.linked)
             THEN [locals EXCEPT !.stack = LinkReadDir(path, arg.linked) \o Tail(@)]
             ELSE [locals EXCEPT !.stack = Tail(@)]
    /\ UNCHANGED ret
    /\ HelperFrame

calculate_total_size_return ==
    /\ callee = "calculate_total_size"
    /\ ret = <<>>
    /\ locals.counter = 1
    /\ locals.stack = <<>>
    /\ ret' = <<locals.total>>
    /\ UNCHANGED locals
    /\ HelperFrame

\* one write through the wrapper
ProgressWriter_write_call ==
    /\ callee = "ProgressWriter::write"
    /\ ret = <<>>
    /\ ret' = <<ProgressWriter_write_result(arg.self, arg.buf, arg.inner)>>
    /\ NoLoop

\* one read through the wrapper
ProgressReader_read_call ==
    /\ callee = "ProgressReader::read"
    /\ ret = <<>>
    /\ ret' = <<ProgressReader_read_result(arg.self, arg.inner)>>
    /\ NoLoop

\* what the filter says of a path and the driver the dispatcher selects
decompress_files_with_progress_call ==
    /\ callee = "decompress_files_with_progress"
    /\ ret = <<>>
    /\ ret' = <<[filter |-> is_compressed_file(arg.path),
                 driver |-> DriverFor(arg.path, arg.rar_support)]>>
    /\ NoLoop

NextHelper ==
    \/ decompress_files_with_progress_call
    \/ ProgressWriter_write_call
    \/ ProgressReader_read_call
    \/ calculate_total_size_enter
    \/ calculate_path_size_call
    \/ calculate_total_size_return
    \/ extension_call
    \/ from_extension_call
    \/ is_compressed_file_call
    \/ get_unique_name_enter
    \/ get_unique_name_loop
    \/ get_unique_name_return
    \/ generate_output_dir_enter
    \/ generate_output_dir_loop
    \/ generate_output_dir_return

SpecHelper == InitHelper /\ [][NextHelper]_vars

\* ---------------------------------------------------------------------------
\* the callers of compress: where the archive goes

\* generate_output_path (main.rs 701-710): beside the first input, named
\* after its stem, or "archive" for several inputs
generate_output_path(paths, compression_type) ==
    LET base_name == IF Len(paths) = 1 THEN FileStemOrEmpty(paths[1])
                     ELSE "archive"
    IN  JoinName(ParentOrCurDir(paths[1]), base_name \o extension(compression_type))

\* compress_files_command (gui.rs 49-62): the requested output as it is when
\* absolute, else beside the first input
requested_output_path(paths, outputfile) ==
    IF IsAbsolute(outputfile) THEN outputfile
    ELSE IF Len(paths) > 0 THEN Join(ParentOrCurDir(paths[1]), outputfile)
    ELSE outputfile

\* the outputs a caller asks for: a new name, the name of a file beside the
\* input, the name of a directory beside it, an input file by its full path
RequestedOutputs(k) ==
    { <<"out" \o extension(k)>>, <<"x.txt">>, <<"b">>,
      <<Root, "w", "c", "b", "y.txt">> }

InitOverwrite ==
    /\ PureIdle
    /\ EngineIdle
    /\ op = "compress"
    /\ kind \in Kinds
    /\ files \in {q \in InputSeqs : Len(q) > 0}
    /\ output_path \in {generate_output_path(files, kind)}
                         \cup {requested_output_path(files, o) : o \in RequestedOutputs(kind)}
    /\ fsSize \in [TreeFiles -> 1..MaxFileSize]
    /\ arc = NoArchive
    /\ output_dir = NoPath

NextOverwrite ==
    \/ compress_files_with_progress
    \/ compress_create
    \/ compress_zip_open
    \/ compress_zip_entry
    \/ compress_zip_finish
    \/ compress_tar_open
    \/ compress_tar_entry
    \/ compress_tar_finish
    \/ compress_single_open
    \/ ProgressWriter_write
    \/ compress_single_finish

SpecOverwrite == InitOverwrite /\ [][NextOverwrite]_vars

\* ---------------------------------------------------------------------------
\* two calls at once: compress_files_command and decompress_files_command
\* are async commands (gui.rs 24, 102), so two of them interleave at their
\* steps. What a call works with is its arguments and the locals of its
\* driver (compression.rs 127-129, 304-305, 382-389, 560-566); the module
\* has no static. The files on disk are all that two calls have in common.

\* the arguments and locals of the call that runs
Snapshot ==
    [op |-> op, pc |-> pc, kind |-> kind, files |-> files,
     output_path |-> output_path, arc |-> arc, events |-> events,
     opened |-> opened, base_dir |-> base_dir, total_size |-> total_size,
     processed_size |-> processed_size, index |-> index,
     bytes_written |-> bytes_written, pending |-> pending,
     output_dir |-> output_dir, bytes_read |-> bytes_read, unread |-> unread,
     outFiles |-> outFiles, outDirs |-> outDirs, touched |-> touched,
     err |-> err]

\* a call before its first step
IdleCall(o, k, paths, out, a, dir) ==
    [op |-> o, pc |-> "idle", kind |-> k, files |-> paths, output_path |-> out,
     arc |-> a, events |-> <<>>, opened |-> {}, base_dir |-> NoPath,
     total_size |-> 0, processed_size |-> 0, index |-> 0, bytes_written |-> 0,
     pending |-> 0, output_dir |-> dir, bytes_read |-> 0, unread |-> 0,
     outFiles |-> <<>>, outDirs |-> {}, touched |-> {}, err |-> ""]

\* a task switch in an engine whose byte counters are one static pair, left
\* as they are when the other call is taken up
yield_sharedCounters ==
    /\ parked # NoCall
    /\ running' = 3 - running
    /\ parked' = Snapshot
    /\ op' = parked.op
    /\ pc' = parked.pc
    /\ kind' = parked.kind
    /\ files' = parked.files
    /\ output_path' = parked.output_path
    /\ arc' = parked.arc
    /\ events' = parked.events
    /\ opened' = parked.opened
    /\ base_dir' = parked.base_dir
    /\ total_size' = parked.total_size
    /\ index' = parked.index
    /\ pending' = parked.pending
    /\ output_dir' = parked.output_dir
    /\ bytes_read' = parked.bytes_read
    /\ unread' = parked.unread
    /\ outFiles' = parked.outFiles
    /\ outDirs' = parked.outDirs
    /\ touched' = parked.touched
    /\ err' = parked.err
    /\ UNCHANGED <<processed_size, bytes_written>>
    /\ UNCHANGED <<nameArg, nameRet, baseArg, baseRet, callee, arg, ret, locals,
                   fsSize>>

\* the scheduler goes from one task to the other between two steps: the
\* running call keeps its arguments and locals, the other goes on with its own
yield ==
    /\ parked # NoCall
    /\ running' = 3 - running
    /\ parked' = Snapshot
    /\ op' = parked.op
    /\ pc' = parked.pc
    /\ kind' = parked.kind
    /\ files' = parked.files
    /\ output_path' = parked.output_path
    /\ arc' = parked.arc
    /\ events' = parked.events
    /\ opened' = parked.opened
    /\ base_dir' = parked.base_dir
    /\ total_size' = parked.total_size
    /\ processed_size' = parked.processed_size
    /\ index' = parked.index
    /\ bytes_written' = parked.bytes_written
    /\ pending' = parked.pending
    /\ output_dir' = parked.output_dir
    /\ bytes_read' = parked.bytes_read
    /\ unread' = parked.unread
    /\ outFiles' = parked.outFiles
    /\ outDirs' = parked.outDirs
    /\ touched' = parked.touched
    /\ err' = parked.err
    /\ UNCHANGED <<nameArg, nameRet, baseArg, baseRet, callee, arg, ret, locals,
                   fsSize>>

\* calls on different inputs and different outputs
PairCompress ==
    { IdleCall("compress", "Zip", << <<"a", "x.txt">>, <<"b">> >>,
               <<Root, "o", "archive.zip">>, NoArchive, NoPath),
      IdleCall("compress", "TarGz", << <<Root, "w", "c", "a">> >>,
               <<Root, "o", "archive.tar.gz">>, NoArchive, NoPath),
      IdleCall("compress", "Gz", << <<"b", "y.txt">> >>,
               <<Root, "o", "data.gz">>, NoArchive, NoPath),
      IdleCall("compress", "Br", << <<Root, "w", "c", "a", "x.txt">> >>,
               <<Root, "o", "x.txt.br">>, NoArchive, NoPath) }

PairDecompress ==
    { IdleCall("decompress", "none", <<>>, c.path, c.arc, OutDir) :
        c \in {d \in ForeignCalls :
                 /\ d.path \notin {<<Root, "o", "data.gz">>}
                 /\ Len(d.arc.entries) <= 1} }

InitPair ==
    /\ nameArg = NoPath
    /\ nameRet = NoName
    /\ baseArg = NoPath
    /\ baseRet = NoPath
    /\ HelperIdle
    /\ EngineIdle
    /\ running = 1
    /\ fsSize \in [TreeFiles -> 1..MaxFileSize]
    /\ \E a \in PairCompress, b \in PairCompress \cup PairDecompress :
          /\ a.files # b.files
          /\ a.output_path # b.output_path
          /\ op = a.op
          /\ kind = a.kind
          /\ files = a.files
          /\ output_path = a.output_path
          /\ arc = a.arc
          /\ output_dir = a.output_dir
          /\ parked = b

NextPair ==
    \/ yield
    \/ compress_files_with_progress
    \/ compress_create
    \/ compress_zip_open
    \/ compress_zip_entry
    \/ compress_zip_finish
    \/ compress_tar_open
    \/ compress_tar_entry
    \/ compress_tar_finish
    \/ compress_single_open
    \/ ProgressWriter_write
    \/ compress_single_finish
    \/ decompress_files_with_progress
    \/ decompress_zip_open
    \/ decompress_zip_entry
    \/ decompress_zip_finish
    \/ decompress_tar_open
    \/ ProgressReader_read
    \/ decompress_tar_unpack
    \/ decompress_single_open
    \/ decompress_single_finish

SpecPair == InitPair /\ [][NextPair]_vars

\* ---------------------------------------------------------------------------
\* decompression of several archives by one command: decompress_files_command
\* (gui.rs 102-153) and the CLI's decompress (main.rs 187-210). Each archive
\* gets its output directory from generate_output_dir right before it is
\* extracted. `ret` holds one record per archive gone through, `locals` the
\* archives still to come and the locals of generate_output_dir.
MaxBatch == 3

BatchCallees == {"decompress_files_command", "decompress"}

BatchArchives ==
    { <<Root, "o", "a.zip">>, <<Root, "o", "a.gz">>, <<Root, "o", "b.zip">>,
      <<Root, "o", "a.txt">>, <<Root, "o", "gone.zip">> }

\* what is in /o before the command: the archives but one, and directories
\* of the names generate_output_dir tries first
BatchTaken ==
    { <<Root, "o", "a">>, <<Root, "o", "a (2)">> }

BatchCalls ==
    {[callee |-> c,
      arg |-> [files |-> fs,
               exists |-> (BatchArchives \ {<<Root, "o", "gone.zip">>}) \cup E]] :
        c \in BatchCallees,
        fs \in SeqsUpTo(BatchArchives, MaxBatch) \ {<<>>},
        E \in SUBSET BatchTaken}

\* the paths there are now: those of before and those the extractions made
RECURSIVE MadeBy(_, _)
MadeBy(results, n) ==
    IF n = 0 THEN {} ELSE MadeBy(results, n - 1) \cup results[n].made

BatchExists == arg.exists \cup MadeBy(ret, Len(ret))

InitBatch ==
    /\ \E c \in BatchCalls :
          /\ callee = c.callee
          /\ arg = c.arg
          /\ locals = [NoLocals EXCEPT !.stack = c.arg.files]
    /\ ret = <<>>
    /\ nameArg = NoPath
    /\ nameRet = NoName
    /\ baseArg = NoPath
    /\ baseRet = NoPath
    /\ EngineAtRest

\* main.rs 193-203: the CLI leaves out what does not exist or is no archive
decompress_skip ==
    /\ callee = "decompress"
    /\ locals.stack # <<>>
    /\ locals.unique_path = NoPath
    /\ LET file == Head(locals.stack)
       IN  file \notin BatchExists \/ ~is_compressed_file(file)
    /\ locals' = [locals EXCEPT !.stack = Tail(@)]
    /\ UNCHANGED ret
    /\ HelperFrame

\* generate_output_dir(file_path) (gui.rs 115, 465-469; main.rs 205, 713-717)
decompress_generate_output_dir ==
    /\ callee \in BatchCallees
    /\ locals.stack # <<>>
    /\ locals.unique_path = NoPath
    /\ LET file == Head(locals.stack)
       IN  /\ callee = "decompress" =>
                 (file \in BatchExists /\ is_compressed_file(file))
           /\ locals' = [locals EXCEPT
                           !.counter = 1,
                           !.unique_path = generate_output_dir_first(file)]
    /\ UNCHANGED ret
    /\ HelperFrame

\* while output_dir.exists() (gui.rs 471-474; main.rs 719-722)
decompress_generate_output_dir_loop ==
    /\ callee \in BatchCallees
    /\ locals.unique_path # NoPath
    /\ locals.unique_path \in BatchExists
    /\ locals.counter < MaxCounter
    /\ locals' = [locals EXCEPT
                    !.counter = @ + 1,
                    !.unique_path = generate_output_dir_next(Head(locals.stack),
                                                             locals.counter + 1)]
    /\ UNCHANGED ret
    /\ HelperFrame

\* the paths an entry of a zip archive can be written to outside the output
\* directory (compression.rs 615)
BatchStray(file) ==
    IF DecoderFor(file) = "zip" THEN SUBSET {<<Root, "o", "b">>} ELSE {{}}

\* an extraction that leaves the output directory as it was
decompress_extracted_noDir ==
    /\ callee \in BatchCallees
    /\ locals.unique_path # NoPath
    /\ locals.unique_path \notin BatchExists
    /\ LET file == Head(locals.stack)
       IN  /\ file \in BatchExists
           /\ DecoderFor(file) # "unsupported"
           /\ \E stray \in BatchStray(file) :
                 ret' = Append(ret, [file |-> file,
                                     output_dir |-> locals.unique_path,
                                     ok |-> TRUE,
                                     made |-> stray])
    /\ locals' = [locals EXCEPT !.stack = Tail(@), !.counter = 0,
                                !.unique_path = NoPath]
    /\ HelperFrame

\* decompress_files_with_progress returns Ok (gui.rs 132-146; main.rs
\* 206-207): the driver has created output_dir (compression.rs 605, 655, 675,
\* 692, 764, 789) and extracted into it
decompress_extracted ==
    /\ callee \in BatchCallees
    /\ locals.unique_path # NoPath
    /\ locals.unique_path \notin BatchExists
    /\ LET file == Head(locals.stack)
       IN  /\ file \in BatchExists
           /\ DecoderFor(file) # "unsupported"
           /\ \E stray \in BatchStray(file) :
                 ret' = Append(ret, [file |-> file,
                                     output_dir |-> locals.unique_path,
                                     ok |-> TRUE,
                                     made |-> {locals.unique_path} \cup stray])
    /\ locals' = [locals EXCEPT !.stack = Tail(@), !.counter = 0,
                                !.unique_path = NoPath]
    /\ HelperFrame

\* decompress_files_with_progress returns Err: the command of the GUI returns
\* (gui.rs 147-151), the CLI goes on to the next archive (main.rs 208). The
\* output directory is there when the driver got as far as create_dir_all.
decompress_failed ==
    /\ callee \in BatchCallees
    /\ locals.unique_path # NoPath
    /\ locals.unique_path \notin BatchExists
    /\ LET file == Head(locals.stack)
           early == file \notin BatchExists \/ DecoderFor(file) = "unsupported"
       IN  \E made \in IF early THEN {{}} ELSE {{}, {locals.unique_path}} :
              ret' = Append(ret, [file |-> file,
                                  output_dir |-> locals.unique_path,
                                  ok |-> FALSE,
                                  made |-> made])
    /\ locals' = [locals EXCEPT
                    !.stack = IF callee = "decompress" THEN Tail(@) ELSE <<>>,
                    !.counter = 0,
                    !.unique_path = NoPath]
    /\ HelperFrame

NextBatch ==
    \/ decompress_skip
    \/ decompress_generate_output_dir
    \/ decompress_generate_output_dir_loop
    \/ decompress_extracted
    \/ decompress_failed

SpecBatch == InitBatch /\ [][NextBatch]_vars

(***************************************************************************)
(* C11: kindFromSuffix and suffixFor are inverse on kinds: for every kind  *)
(* k, from_extension(extension(k)) = k; and for every text that is not one *)
(* of the recognized suffixes, compared case-insensitively, from_extension *)
(* yields no kind.                                                         *)
(***************************************************************************)
KindSuffixes ==
    {".zip", ".tar.gz", ".tgz", ".tar.br", ".gz", ".gzip", ".br", ".bz2", ".bzip2"}

C11_SuffixKindInverse ==
    /\ (callee = "extension" /\ Len(ret) = 2) => ret[2] = arg
    /\ (callee = "from_extension" /\ Len(ret) = 1
            /\ to_lowercase(arg) \notin KindSuffixes) => ret[1] = NoKind

C11_Witness ==
    /\ callee = "extension"
    /\ arg = "Bzip2"
    /\ ret = <<".bz2", "Bzip2">>

(***************************************************************************)
(* C13: unique output naming: given a base path and any finite set of      *)
(* existing paths, the generated name is the base itself if it does not    *)
(* exist, otherwise 'base (N)' for the smallest N >= 2 such that           *)
(* 'base (N)' does not exist; the returned path never exists at the time   *)
(* it is returned.                                                         *)
(***************************************************************************)
UniqueBaseOf(c, a) ==
    IF c = "get_unique_name" THEN a.path ELSE generate_output_dir_first(a.path)

UniqueNamePost(base, exists, r) ==
    /\ r \notin exists
    /\ base \notin exists => r = base
    /\ base \in exists =>
          \E n \in 2..MaxCounter :
              /\ r = WithCounter(base, n)
              /\ \A m \in 2..(n - 1) : WithCounter(base, m) \in exists

C13_UniqueName ==
    (callee \in {"get_unique_name", "generate_output_dir"} /\ Len(ret) = 1)
        => UniqueNamePost(UniqueBaseOf(callee, arg), arg.exists, ret[1])

(***************************************************************************)
(* C12: isSupportedArchive(path) is true exactly when the filename ends in *)
(* one of the recognized suffixes .zip, .tar.gz, .tgz, .tar.br, .gz,       *)
(* .gzip, .br, .bz2, .bzip2, and false for every other filename.           *)
(***************************************************************************)
EndsInKindSuffix(n) == \E suf \in KindSuffixes : EndsWith(n, suf)

C12_IsSupportedArchive ==
    (callee = "is_compressed_file" /\ Len(ret) = 1)
        => (ret[1] <=> EndsInKindSuffix(FileNameOrEmpty(arg)))

(***************************************************************************)
(* C10: recoverName strips exactly one recognized suffix (case-sensitive)  *)
(* from the end of the name; a non-empty remainder that contains a '.' is  *)
(* the result verbatim, one without a '.' gets ".txt" appended; when no    *)
(* suffix matched or nothing remains, the result is the file stem of the   *)
(* name.  notes.txt.gz -> notes.txt, data.gz -> data.txt, weird -> weird.  *)
(***************************************************************************)
RecognizedSuffixes == {".gz", ".gzip", ".br", ".bz2", ".bzip2"}

\* the name with its last extension removed, stated on splittings of the name
StemOf(n) ==
    LET cuts == {i \in 2..Len(n) :
                    /\ SubSeq(n, i, i) = "."
                    /\ ~ContainsDot(SubSeq(n, i + 1, Len(n)))}
    IN  IF cuts = {} THEN n ELSE SubSeq(n, 1, (CHOOSE i \in cuts : TRUE) - 1)

RecoverNamePost(n, r) ==
    LET hits == {s \in RecognizedSuffixes : EndsWith(n, s)}
        rems == {rem \in {DropLast(n, Len(s)) : s \in hits} : rem # ""}
    IN  /\ Cardinality(hits) <= 1
        /\ \A rem \in rems :
              /\ ContainsDot(rem) => r = rem
              /\ ~ContainsDot(rem) => r = rem \o ".txt"
        /\ rems = {} => r = StemOf(n)

C10_RecoverName ==
    nameRet # NoName =>
        /\ RecoverNamePost(FileNameOrEmpty(nameArg), nameRet)
        /\ nameArg = <<"d", "notes.txt.gz">> => nameRet = "notes.txt"
        /\ nameArg = <<"d", "data.gz">> => nameRet = "data.txt"
        /\ nameArg = <<"d", "weird">> => nameRet = "weird"

C10_Witness ==
    /\ nameArg = <<"d", "data.bzip2">>
    /\ nameRet = "data.txt"

(***************************************************************************)
(* C8: commonBase(inputs) is the longest common component-wise prefix of   *)
(* the inputs' parent directories; for a single input it is that input's   *)
(* parent; when the parents share no leading component it is the current   *)
(* directory.  /a/b/c.txt and /a/b/d/e.txt give /a/b.  (Stated of inputs   *)
(* that have a parent directory, as the claim presupposes.)                *)
(***************************************************************************)
\* p is a prefix of every input's parent
SharedByParents(p, paths) ==
    \A i \in 1..Len(paths) : IsPrefix(p, Parent(paths[i]))

LongestSharedPrefix(paths) ==
    LET first == Parent(paths[1])
        n == CHOOSE k \in 0..Len(first) :
                /\ SharedByParents(SubSeq(first, 1, k), paths)
                /\ \A m \in (k + 1)..Len(first) :
                      ~SharedByParents(SubSeq(first, 1, m), paths)
    IN  SubSeq(first, 1, n)

C8_CommonBase ==
    (/\ baseRet # NoPath
     /\ Len(baseArg) >= 1
     /\ \A i \in 1..Len(baseArg) : HasParent(baseArg[i]))
    =>
        /\ Len(baseArg) = 1 => baseRet = Parent(baseArg[1])
        /\ Len(baseArg) >= 2 =>
              baseRet = IF LongestSharedPrefix(baseArg) = <<>>
                        THEN <<CurDir>>
                        ELSE LongestSharedPrefix(baseArg)
        /\ baseArg = << <<Root, "a", "b", "c.txt">>, <<Root, "a", "b", "d", "e.txt">> >>
              => baseRet = <<Root, "a", "b">>

C8_Witness ==
    /\ baseArg = << <<Root, "a", "b", "c.txt">>, <<Root, "a", "b", "d", "e.txt">> >>
    /\ baseRet = <<Root, "a", "b">>

(***************************************************************************)
(* C1: for every kind that does not support multiple entries (Gz, Gzip,    *)
(* Br, Bzip2) and every InputSet of more than one element, compress fails  *)
(* before any I/O: no output file is created or truncated, no input is     *)
(* opened and no progress event is emitted.                                *)
(***************************************************************************)
C1_MultiInputRejected ==
    (kind \in {"Gz", "Gzip", "Br", "Bzip2"} /\ Len(files) > 1) =>
        /\ pc \in {"idle", "failed"}
        /\ pc = "failed" => err = "UnsupportedMultiInput"
        /\ arc = NoArchive
        /\ opened = {}
        /\ events = <<>>

C1_Witness ==
    /\ kind = "Gzip"
    /\ Len(files) = 2
    /\ pc = "failed"
    /\ err = "UnsupportedMultiInput"
    /\ arc = NoArchive

(***************************************************************************)
(* C2: within one compress or decompress call, for every kind and every    *)
(* InputSet (also when all files are empty, SizeTotal = 0), the percent    *)
(* values handed to the progress callback never decrease.                  *)
(***************************************************************************)
C2_ProgressMonotone ==
    \A i \in 1..(Len(events) - 1) : PctLeq(events[i], events[i + 1])

(***************************************************************************)
(* C3: every compress or decompress call that returns success, for every   *)
(* kind, has reported at least one progress event, and the last percent    *)
(* it reported is exactly 100.                                             *)
(***************************************************************************)
C3_SuccessEndsAt100 ==
    pc = "completed" =>
        /\ events # <<>>
        /\ PctIs100(events[Len(events)])

(***************************************************************************)
(* C4: zip round trip: compress with kind Zip, then decompress into an     *)
(* empty directory, yields for each input file a file of the same content  *)
(* at outputDir / (the input's path relative to commonBase(inputs)), and   *)
(* no other file.                                                          *)
(***************************************************************************)
\* the path that leads from directory b to p (both resolved): up from b to
\* their common ancestor, then down to p
RelativePath(b, p) ==
    LET k == CommonLen(b, p)
    IN  [i \in 1..(Len(b) - k) |-> ParentDir] \o SubSeq(p, k + 1, Len(p))

\* where the claim puts an input: outputDir / (path relative to commonBase)
ExpectedOut(p, paths) ==
    Resolve(OutDir \o RelativePath(Resolve(CommonBase(paths)), Resolve(p)))

C4_ZipRoundTrip ==
    (/\ op = "decompress"
     /\ pc = "completed"
     /\ kind = "Zip"
     /\ Len(files) >= 1
     /\ \A i \in 1..Len(files) : IsFile(files[i]))
    =>
        /\ DOMAIN outFiles = {ExpectedOut(files[i], files) : i \in 1..Len(files)}
        /\ \A i \in 1..Len(files) :
              /\ ExpectedOut(files[i], files) \in DOMAIN outFiles
              /\ outFiles[ExpectedOut(files[i], files)] = FileData(files[i])

(***************************************************************************)
(* C5: single-stream round trip: for Gzip, Brotli and Bzip2, compressing   *)
(* one file and decompressing the result reproduces the exact content; for *)
(* gzip the output file is named as the original (the header's name wins   *)
(* over the archive's own name), for Brotli and Bzip2 it is named          *)
(* recoverName(the archive's file name).                                   *)
(***************************************************************************)
C5_SingleRoundTrip ==
    (/\ op = "decompress"
     /\ pc = "completed"
     /\ kind \in {"Gz", "Gzip", "Br", "Bzip2"})
    =>
        /\ Cardinality(DOMAIN outFiles) = 1
        /\ \A out \in DOMAIN outFiles :
              /\ Len(out) = Len(OutDir) + 1
              /\ IsPrefix(OutDir, out)
              /\ outFiles[out] = FileData(files[1])
              /\ kind \in {"Gz", "Gzip"} => out[Len(out)] = FileNameOrEmpty(files[1])
              /\ kind \in {"Br", "Bzip2"} =>
                    RecoverNamePost(FileNameOrEmpty(output_path), out[Len(out)])

C5_Witness ==
    /\ op = "decompress"
    /\ pc = "completed"
    /\ kind = "Gz"
    /\ files = << <<"b", "y.txt">> >>
    /\ output_path = <<Root, "o", "data.gz">>
    /\ outFiles = (<<Root, "o", "d", "y.txt">> :> <<2, 2>>)

(***************************************************************************)
(* C6: every entry name compress writes into a zip or tar container, for   *)
(* every InputSet (relative inputs, directories, and inputs such as ".."   *)
(* whose parent is the empty path), is a relative path: it does not start  *)
(* at a root and has no ".." component that escapes the base directory.    *)
(***************************************************************************)
\* some prefix of the name steps above where it started
RECURSIVE EscapesFrom(_, _)
EscapesFrom(name, depth) ==
    IF name = <<>> THEN FALSE
    ELSE IF Head(name) = ParentDir
         THEN depth = 0 \/ EscapesFrom(Tail(name), depth - 1)
    ELSE IF Head(name) = CurDir THEN EscapesFrom(Tail(name), depth)
    ELSE EscapesFrom(Tail(name), depth + 1)

C6_EntryNamesRelative ==
    kind \in {"Zip", "TarGz", "TarBr"} =>
        \A i \in 1..Len(arc.entries) :
            /\ ~IsAbsolute(arc.entries[i].name)
            /\ ~EscapesFrom(arc.entries[i].name, 0)

(***************************************************************************)
(* C7: during zip decompression, for every entry name stored in the        *)
(* archive (absolute names and names with ".." included), every file or    *)
(* directory created, written or chmod-ed lies under the output directory. *)
(***************************************************************************)
UnderOutputDir(p) == IsPrefix(Resolve(output_dir), Resolve(p))

C7_ZipExtractsUnderOutputDir ==
    (op = "decompress" /\ DecoderFor(output_path) = "zip") =>
        /\ \A p \in touched : UnderOutputDir(p)
        /\ \A p \in DOMAIN outFiles : UnderOutputDir(p)
        /\ \A p \in outDirs : UnderOutputDir(p) \/ IsPrefix(p, Resolve(output_dir))

(***************************************************************************)
(* C9: for every non-empty InputSet the base directory the zip driver uses *)
(* is a component-wise prefix of the parent directory of every input, so   *)
(* that stripping it from any input path succeeds; also when the fallback  *)
(* to the current directory is taken.                                      *)
(***************************************************************************)
C9_BaseDirIsAncestor ==
    (pc = "zip_loop" /\ Len(files) >= 1) =>
        \A i \in 1..Len(files) :
            /\ StripOk(files[i], base_dir)
            /\ HasParent(files[i]) => IsPrefix(base_dir, Parent(files[i]))

(***************************************************************************)
(* C14: the engine never panics: for every kind and every InputSet, also   *)
(* the empty one and directory inputs with no final file-name component,   *)
(* compress returns either success or an error value.                      *)
(***************************************************************************)
C14_NeverPanics == pc # "panicked"

(***************************************************************************)
(* C15: compress with any kind fails with an I/O error whenever some path  *)
(* of the InputSet does not exist; it never returns success having skipped *)
(* a missing input.                                                        *)
(***************************************************************************)
Exists(p) == IsFile(p) \/ IsDir(p)

C15_MissingInputFails ==
    /\ (op = "compress" /\ pc = "completed")
          => \A i \in 1..Len(files) : Exists(files[i])
    /\ (op = "compress" /\ pc = "failed"
            /\ \E i \in 1..Len(files) : ~Exists(files[i])
            /\ err # "UnsupportedMultiInput")
          => err = "IOError"

(***************************************************************************)
(* C16: when a driver fails part-way through compress or decompress, the   *)
(* operation ends in Failed with the error returned to the caller: no step *)
(* follows the failure (no second attempt, no further entry), and the step *)
(* that fails deletes no output file or directory already created.         *)
(***************************************************************************)
C16_FailureIsFinal ==
    [][/\ pc \notin {"failed", "panicked"}
       /\ pc' = "failed" => err' \in {"UnsupportedMultiInput", "UnsupportedFormat",
                                      "IOError", "CodecError"}
       /\ pc' \in {"failed", "panicked"} =>
             /\ arc # NoArchive => arc' # NoArchive
             /\ outDirs \subseteq outDirs'
             /\ DOMAIN outFiles \subseteq DOMAIN outFiles'
             /\ index' = index]_vars

C16_Witness ==
    /\ op = "decompress"
    /\ pc = "failed"
    /\ err = "IOError"
    /\ Len(arc.entries) = 2
    /\ index = 1
    /\ <<Root, "o", "d", "sub">> \in outDirs

(***************************************************************************)
(* C17: totalSize(inputs) equals the sum of the byte lengths of all        *)
(* regular files in the InputSet plus all regular files transitively       *)
(* contained in its directories; empty directories contribute 0.           *)
(***************************************************************************)
RECURSIVE SumLen(_)
SumLen(S) ==
    IF S = {} THEN 0
    ELSE LET f == CHOOSE x \in S : TRUE
         IN  fsSize[f] + SumLen(S \ {f})

\* the regular files an input stands for: itself, or all those beneath it
FilesUnder(p) == {f \in TreeFiles : IsPrefix(Resolve(p), f)}

RECURSIVE SumInputs(_)
SumInputs(paths) ==
    IF paths = <<>> THEN 0
    ELSE SumLen(FilesUnder(Head(paths))) + SumInputs(Tail(paths))

C17_TotalSize ==
    (op = "compress" /\ pc \in {"zip_loop", "tar_loop"})
        => total_size = SumInputs(files)

C17_Witness ==
    /\ op = "compress"
    /\ pc = "zip_loop"
    /\ files = << <<Root, "w", "c", "a">>, <<"b", "y.txt">> >>
    /\ fsSize[<<Root, "w", "c", "a", "x.txt">>] = 2
    /\ fsSize[<<Root, "w", "c", "b", "y.txt">>] = 1
    /\ total_size = 3

(***************************************************************************)
(* C18: totalSize terminates on every directory graph, including one where *)
(* a symbolic link inside a directory points back to an ancestor           *)
(* directory: the cycle is detected and skipped, not followed.  Skipping   *)
(* the cycle means that no path visited lies beyond the link and that the  *)
(* total counts every regular file once per input that holds it.           *)
(***************************************************************************)
BeyondLink(p) == Len(p) > Len(LinkPath) /\ IsPrefix(LinkPath, p)

RECURSIVE LinkTotal(_, _)
LinkTotal(paths, len) ==
    IF paths = <<>> THEN 0
    ELSE (IF IsPrefix(Head(paths), LinkFile) THEN len ELSE 0)
            + LinkTotal(Tail(paths), len)

C18_CyclesSkipped ==
    callee = "calculate_total_size" =>
        /\ \A i \in 1..Len(locals.stack) : ~BeyondLink(locals.stack[i])
        /\ Len(ret) = 1 => ret[1] = LinkTotal(arg.files, arg.len)

(***************************************************************************)
(* C19: for every non-empty InputSet with SizeTotal > 0 and every kind,    *)
(* when compress completes successfully the cumulative byte count used for *)
(* byte-based progress equals SizeTotal; for the single-stream kinds, the  *)
(* counter of the progress-counting writer equals the source file size.    *)
(***************************************************************************)
C19_CumulativeBytes ==
    (op = "compress" /\ pc = "completed" /\ Len(files) >= 1 /\ total_size > 0)
        => IF supports_multiple_files(kind)
           THEN processed_size = total_size
           ELSE bytes_written = total_size

(***************************************************************************)
(* C20: every percent value passed to the progress callback by a compress  *)
(* or decompress driver lies in [0, 100], also the values the zip and tar  *)
(* drivers compute without the clamping wrappers.                          *)
(***************************************************************************)
PctInRange(a) == a.d > 0 /\ 0 <= a.n /\ a.n <= a.d

InputFilesOf(paths) ==
    {f \in TreeFiles : \E i \in 1..Len(paths) : IsPrefix(Resolve(paths[i]), f)}

InputPathsOf(paths) ==
    {Resolve(paths[i]) : i \in 1..Len(paths)} \cup InputFilesOf(paths)

C21_InputsReadOnly ==
    [][op = "compress" =>
          /\ \A f \in InputFilesOf(files) : fsSize'[f] = fsSize[f]
          /\ (arc' # arc => Resolve(output_path) \notin InputPathsOf(files))]_vars


(***************************************************************************)
(* C22: two calls running at once on different inputs and different        *)
(* outputs share no engine state: however their steps interleave, the byte *)
(* counters of each call and the progress values it has reported are those *)
(* of the call running alone on its own inputs.                            *)
(***************************************************************************)
\* the zip driver alone, after n of its inputs
RECURSIVE ZipAlone(_, _, _, _)
ZipAlone(paths, base, total, n) ==
    IF n = 0 THEN [entries |-> <<>>, events |-> <<>>, processed |-> 0]
    ELSE LET st == ZipAlone(paths, base, total, n - 1)
         IN  add_to_zip(ZipWalk(paths[n]), base, total,
                [entries |-> st.entries,
                 events |-> Append(st.events,
                               BeforeInput(st.processed, total, n - 1, Len(paths))),
                 processed |-> st.processed])

\* the tar drivers alone, after n of their inputs
RECURSIVE TarAlone(_, _, _)
TarAlone(paths, total, n) ==
    IF n = 0 THEN [events |-> <<>>, processed |-> 0]
    ELSE LET st == TarAlone(paths, total, n - 1)
         IN  [events |-> Append(st.events,
                            BeforeInput(st.processed, total, n - 1, Len(paths))),
              processed |-> st.processed + calculate_path_size(paths[n])]

\* a counting stream alone: one event per transfer, the last one that of the
\* bytes counted so far
StreamAlone(evs, count, rest, total, whole) ==
    /\ count + rest = whole
    /\ Len(evs) <= count
    /\ (count > 0 /\ total > 0) =>
          /\ evs # <<>>
          /\ evs[Len(evs)] = PctMin100(Pct(count, total))

AsAlone(s) ==
    /\ (s.op = "compress" /\ s.pc \in {"zip_loop", "tar_loop"}) =>
          s.total_size = SumInputs(s.files)
    /\ (s.op = "compress" /\ s.pc = "zip_loop") =>
          LET st == ZipAlone(s.files, s.base_dir, s.total_size, s.index)
          IN  /\ s.events = st.events
              /\ s.processed_size = st.processed
              /\ s.arc.entries = st.entries
    /\ (s.op = "compress" /\ s.pc = "tar_loop") =>
          LET st == TarAlone(s.files, s.total_size, s.index)
          IN  /\ s.events = st.events
              /\ s.processed_size = st.processed
    /\ (s.op = "compress" /\ s.pc = "completed" /\ s.kind = "Zip") =>
          LET st == ZipAlone(s.files, s.base_dir, s.total_size, Len(s.files))
          IN  /\ s.events = Append(st.events, Hundred)
              /\ s.processed_size = st.processed
    /\ (s.op = "compress" /\ s.pc = "completed" /\ s.kind \in {"TarGz", "TarBr"}) =>
          LET st == TarAlone(s.files, s.total_size, Len(s.files))
          IN  /\ s.events = Append(st.events, Hundred)
              /\ s.processed_size = st.processed
    /\ (s.op = "compress" /\ s.pc = "single_write") =>
          /\ s.total_size = FileLen(s.files[1])
          /\ s.bytes_written + s.pending \in 1..MaxEncoded
          /\ StreamAlone(s.events, s.bytes_written, s.pending, s.total_size,
                         s.bytes_written + s.pending)
    /\ (s.op = "decompress" /\ s.pc \in {"dtar_read", "dsingle_read"}) =>
          /\ s.total_size = s.arc.size
          /\ StreamAlone(s.events, s.bytes_read, s.unread, s.total_size,
                         s.arc.size)

C22_CallsAsAlone ==
    /\ AsAlone(Snapshot)
    /\ parked # NoCall => AsAlone(parked)

\* both calls half-way, the first one running again
C22_Witness ==
    /\ parked # NoCall
    /\ running = 1
    /\ pc = "zip_loop"
    /\ index = 1
    /\ processed_size > 0
    /\ parked.pc = "single_write"
    /\ parked.bytes_written = 1
    /\ parked.pending = 1


(***************************************************************************)
(* C23: for Zip, TarGz and TarBr, every input file is stored under its     *)
(* path relative to the base directory of the inputs (components joined by *)
(* '/'); the bare file name is used only when the path does not start with *)
(* the base directory, and that never fails the call.                      *)
(***************************************************************************)
\* the files of the first n inputs, in the order the drivers reach them
RECURSIVE WalkInputs(_, _)
WalkInputs(paths, n) ==
    IF n = 0 THEN <<>> ELSE WalkInputs(paths, n - 1) \o ZipWalk(paths[n])

IsFileEntry(e) == ~e.dir

RelativeNames(paths, n) ==
    LET walk == WalkInputs(paths, n)
    IN  [i \in 1..Len(walk) |-> ZipEntryName(walk[i], ZipBaseDir(paths))]

StoredNames(entries) ==
    LET stored == SelectSeq(entries, IsFileEntry)
    IN  [i \in 1..Len(stored) |-> stored[i].name]

C23_RelativeEntryNames ==
    (op = "compress" /\ supports_multiple_files(kind) /\ Len(files) > 0) =>
        /\ pc \in {"zip_loop", "tar_loop"} =>
              StoredNames(arc.entries) = RelativeNames(files, index)
        /\ pc = "completed" =>
              StoredNames(arc.entries) = RelativeNames(files, Len(files))
        /\ pc # "panicked"


(***************************************************************************)
(* C24: a write or read through the counting wrapper that transfers N      *)
(* bytes adds exactly N to the wrapper's counter and, when the total is    *)
(* above 0, makes exactly one callback, with min(100, 100 * counter /      *)
(* total); when the total is 0 nothing is divided and no callback is made. *)
(***************************************************************************)
WrapperCallees == {"ProgressWriter::write", "ProgressReader::read"}

\* the fraction v is min(100, 100 * count / total) percent
IsClampedPercent(v, count, total) ==
    /\ v.d > 0
    /\ IF count >= total THEN v.n = v.d ELSE v.n * total = count * v.d

C24_WrapperAccounting ==
    (callee \in WrapperCallees /\ Len(ret) = 1 /\ arg.inner.ok) =>
        LET N == ret[1].result.bytes
            counter == ret[1].count
        IN  /\ ret[1].result.ok
            /\ counter = arg.self.count + N
            /\ arg.self.total_size > 0 =>
                  /\ Len(ret[1].calls) = 1
                  /\ IsClampedPercent(ret[1].calls[1], counter, arg.self.total_size)
            /\ arg.self.total_size = 0 => ret[1].calls = <<>>

\* a read of two bytes by a reader whose total is 0
C24_Witness ==
    /\ callee = "ProgressReader::read"
    /\ Len(ret) = 1
    /\ arg.inner.ok
    /\ arg.self.total_size = 0
    /\ ret[1].result.bytes = 2
    /\ ret[1].calls = <<>>

(***************************************************************************)
(* C25: when the inner stream's write or read fails, the wrapper returns   *)
(* that error, its counter stays as it was and no callback is made; the    *)
(* bytes that go through are those given, none held back.                  *)
(***************************************************************************)
C25_WrapperTransparent ==
    (callee \in WrapperCallees /\ Len(ret) = 1) =>
        /\ ~arg.inner.ok =>
              /\ ~ret[1].result.ok
              /\ ret[1].result.error = arg.inner.error
              /\ ret[1].count = arg.self.count
              /\ ret[1].calls = <<>>
        /\ callee = "ProgressWriter::write" =>
              /\ ret[1].passed = arg.buf
              /\ arg.inner.ok => ret[1].result.bytes = arg.inner.bytes
        /\ (callee = "ProgressReader::read" /\ arg.inner.ok) =>
              /\ ret[1].passed = arg.inner.data
              /\ ret[1].result.bytes = Len(arg.inner.data)

\* a failed write by a writer that had counted a byte of its two
C25_Witness ==
    /\ callee = "ProgressWriter::write"
    /\ Len(ret) = 1
    /\ ~arg.inner.ok
    /\ arg.self.total_size = 2
    /\ arg.self.count = 1
    /\ Len(arg.buf) = 2
    /\ ret[1].count = 1


(***************************************************************************)
(* C26: within one operation the entries are processed one at a time:      *)
(* compress has written, at every point of its loop, the files of the      *)
(* inputs it has gone through, in InputSet order, and nothing of a later   *)
(* input; each step of the zip extraction extracts the one entry at the    *)
(* current index and moves the index on by one, from 0 to n-1.             *)
(***************************************************************************)
StoredData(entries) ==
    LET stored == SelectSeq(entries, IsFileEntry)
    IN  [i \in 1..Len(stored) |-> stored[i].data]

InputData(paths, n) ==
    LET walk == WalkInputs(paths, n)
    IN  [i \in 1..Len(walk) |-> FileData(walk[i])]

WrittenInOrder ==
    (op = "compress" /\ pc \in {"zip_loop", "tar_loop"}) =>
        StoredData(arc.entries) = InputData(files, index)

ExtractedInOrder ==
    (op = "decompress" /\ pc = "dzip_loop" /\ touched' # touched) =>
        /\ index' = index + 1
        /\ touched' = touched \cup {Join(output_dir, arc.entries[index + 1].name)}

StepsOneInput ==
    (op = "compress" /\ pc \in {"zip_loop", "tar_loop"}) =>
        index' \in {index, index + 1}

C26_OneAtATime ==
    []WrittenInOrder /\ [][ExtractedInOrder /\ StepsOneInput]_vars

\* two inputs written, the later one in the list last
C26_Witness ==
    /\ op = "compress"
    /\ pc = "zip_loop"
    /\ index = 2
    /\ files = << <<"b", "y.txt">>, <<Root, "w", "c", "a">> >>
    /\ fsSize[<<Root, "w", "c", "a", "x.txt">>] = 2
    /\ fsSize[<<Root, "w", "c", "b", "y.txt">>] = 1
    /\ Len(arc.entries) = 2


(***************************************************************************)
(* C27: every decompression driver creates the output directory, missing   *)
(* parents included, before it creates or writes an extracted file, and an *)
(* output directory that is already there does not fail the call.          *)
(***************************************************************************)
OutputDirThere ==
    \A q \in Prefixes(Resolve(output_dir)) : q \in TreeDirs \cup outDirs

OutputDirFirst ==
    (op = "decompress" /\ (DOMAIN outFiles # {} \/ touched # {})) => OutputDirThere

ExistingDirAccepted ==
    (/\ op = "decompress"
     /\ pc \in {"dzip_open", "dtar_open", "dsingle_open"}
     /\ Resolve(output_dir) \in TreeDirs)
    => err' # "IOError"

C27_OutputDirCreatedFirst ==
    []OutputDirFirst /\ [][ExistingDirAccepted]_vars

\* a stream extracted into a directory that was there before the call
C27_Witness ==
    /\ op = "decompress"
    /\ pc = "completed"
    /\ DecoderFor(output_path) = "gz"
    /\ output_dir = ExistingOutDir
    /\ outDirs = {}
    /\ DOMAIN outFiles # {}


(***************************************************************************)
(* C28: the final 100% / "Complete" event is reported only by a call that  *)
(* goes on to return success: the step of a compress call that reports it  *)
(* after the last input ends in success, also when the zip or tar          *)
(* container is finalized after it.                                        *)
(***************************************************************************)
ReportsComplete ==
    /\ op = "compress"
    /\ pc \in {"zip_loop", "tar_loop"}
    /\ index = Len(files)
    /\ events' = Append(events, Hundred)

C28_CompleteMeansSuccess ==
    [][ReportsComplete => pc' = "completed"]_vars


(***************************************************************************)
(* C29: in a decompression of several archives by one command, any two     *)
(* archives that are both extracted successfully are extracted into        *)
(* different output directories, also when they have the same stem in the  *)
(* same directory, and none is extracted into a directory that was there   *)
(* before its extraction.                                                  *)
(***************************************************************************)
C29_DistinctOutputDirs ==
    callee \in BatchCallees =>
        /\ \A i, j \in 1..Len(ret) :
              (i < j /\ ret[i].ok /\ ret[j].ok) =>
                  ret[i].output_dir # ret[j].output_dir
        /\ \A j \in 1..Len(ret) :
              ret[j].ok =>
                  ret[j].output_dir \notin arg.exists \cup MadeBy(ret, j - 1)

\* a.zip and a.gz of one directory, both extracted
C29_Witness ==
    /\ callee = "decompress_files_command"
    /\ arg.files = << <<Root, "o", "a.zip">>, <<Root, "o", "a.gz">> >>
    /\ <<Root, "o", "a">> \in arg.exists
    /\ Len(ret) = 2
    /\ ret[1].ok
    /\ ret[2].ok
    /\ ret[1].output_dir = <<Root, "o", "a (2)">>
    /\ ret[2].output_dir = <<Root, "o", "a (3)">>


(***************************************************************************)
(* C30: the archive filter and the dispatcher agree: for every path,       *)
(* is_compressed_file is true exactly when decompress_files_with_progress  *)
(* selects a codec driver for it rather than failing with "Unsupported     *)
(* file format", names ending in .rar and upper-case suffixes included.    *)
(***************************************************************************)
C30_FilterMatchesDispatcher ==
    (callee = "decompress_files_with_progress" /\ Len(ret) = 1) =>
        (ret[1].filter <=> ret[1].driver # "unsupported")

====
